---- MODULE Spec2Model ----
(***************************************************************************)
(* A model of yo's remote task subsystem (src/yo/tasks.py): the task plan  *)
(* (transitive loading, prerequisite folding, conflict detection, ordering *)
(* by depth-first search, launching in order), the classification of the   *)
(* remote marker files, the join loop, and the remote launch command with  *)
(* its detached background wrapper.                                        *)
(***************************************************************************)
EXTENDS Integers, Sequences, FiniteSets, TLC

VARIABLES
    \* ---- the task plan (class TaskPlan, class YoTask)
    catalog,        \* name -> the script file of the task, as written on disk
    tasks,          \* name -> the cached YoTask object (YoTask.load is lru_cached)
    request,        \* the argument of TaskPlan(...)
    name_to_task,   \* the keys of TaskPlan.name_to_task, in insertion order
    ordered_tasks,  \* TaskPlan.ordered_tasks, as task names
    pc,             \* where the caller of the plan is
    exc,            \* the exception prepare() raised, if any
    run_i,          \* how many tasks run() has launched
    ssh_log,        \* the external commands (ssh, scp) issued so far, in order
    \* ---- the target host and the poller (task_get_status, task_join)
    remote,         \* task name -> the marker files of its task directory
    wait_tasks,     \* the wait_tasks argument of task_join
    status_dict,    \* the mapping of the most recent poll
    join_pc,        \* where task_join is
    polls,          \* how many polls this join has made (counted up to MaxPolls)
    task_previous_status,   \* task_join's record of each task's last seen pair
    join_log,       \* the transition lines the most recent poll logged
    join_exc,       \* the exception that ended task_join, if any
    found,          \* the marker files the poll's find has printed for grep to read
    \* ---- the remote launch command and the background wrappers (_task_run)
    launcher,       \* the remote shell running one launch command string
    wrappers,       \* the detached background wrappers started so far
    launches,       \* task name -> how many launch commands were issued for it
    relaunch,       \* what the latest launch found, when it found a completed run
    \* ---- one call of a function of the module, taken by itself
    call,           \* the function called and its arguments
    ret,            \* what the call returned, or the exception it raised
    \* ---- the local host, as build_tarball sees it
    local_tree,     \* path -> kind and modification time of what exists there
    clock,          \* the time of the local host
    tar_runs,       \* the member lists of the tar subprocesses run so far
    con_log         \* the lines logged to the console so far

planvars == <<catalog, tasks, request, name_to_task, ordered_tasks, pc, exc, run_i, ssh_log>>
pollvars == <<remote, wait_tasks, status_dict, join_pc, polls, task_previous_status, join_log, join_exc, found>>
launchvars == <<launcher, wrappers, launches, relaunch>>
hostvars == <<local_tree, clock, tar_runs, con_log>>
unitvars == <<call, ret, hostvars>>
vars == <<planvars, pollvars, launchvars, unitvars>>

(***************************************************************************)
(* Bounds of the model.                                                    *)
(***************************************************************************)
MaxLines == 2       \* directive lines in the whole task catalog

MaxPolls == 1       \* polls of one join that are counted
MaxInt == 3         \* the largest number a marker file holds
MaxLaunches == 3    \* launch commands the client issues
MaxScript == 2      \* lines of a script given to the parser by itself
MaxGlobs == 2       \* entries of a list given to standardize_globs by itself
MaxInclude == 2     \* entries of a list given to build_tarball by itself
MaxCalls == 2       \* calls of build_tarball in succession
MaxTime == 4        \* the latest time the local clock reaches

Names == {"a", "b", "c"}        \* the task catalog
Files == {"f"}                  \* paths named by SENDFILE
Dirs == {"a", "b"}              \* the task directories on the target host

None == "None"

\* ---------------------------------------------------------------- helpers
Range(s) == {s[i] : i \in 1..Len(s)}

InSeq(x, s) == \E i \in 1..Len(s) : s[i] = x

\* The position of the first occurrence of x in s (0 when absent).
IndexOf(x, s) == IF InSeq(x, s) THEN CHOOSE i \in 1..Len(s) : s[i] = x /\ \A j \in 1..(i - 1) : s[j] # x ELSE 0

SeqsUpTo(S, n) == UNION {[1..k -> S] : k \in 0..n}

\* The sequences of distinct elements of S, the empty one excepted.
Arrangements(S) == {s \in SeqsUpTo(S, Cardinality(S)) : s # <<>> /\ \A i, j \in 1..Len(s) : s[i] = s[j] => i = j}

\* No exception.
NoExc == [kind |-> "none", a |-> None, b |-> None]

(***************************************************************************)
(* The string methods the parser uses, on strings without quotes,          *)
(* backslashes or tabs.                                                    *)
(***************************************************************************)
\* s.startswith(prefix)
startswith(s, prefix) == Len(s) >= Len(prefix) /\ SubSeq(s, 1, Len(prefix)) = prefix

\* s.endswith(suffix)
endswith(s, suffix) == Len(s) >= Len(suffix) /\ SubSeq(s, Len(s) - Len(suffix) + 1, Len(s)) = suffix

\* s.lstrip(ch)
RECURSIVE lstrip(_, _)
lstrip(s, ch) ==
    IF Len(s) > 0 /\ SubSeq(s, 1, 1) = ch THEN lstrip(SubSeq(s, 2, Len(s)), ch) ELSE s

\* s.rstrip(ch)
RECURSIVE rstrip(_, _)
rstrip(s, ch) ==
    IF Len(s) > 0 /\ SubSeq(s, Len(s), Len(s)) = ch THEN rstrip(SubSeq(s, 1, Len(s) - 1), ch) ELSE s

\* s.strip()
strip(s) == rstrip(lstrip(s, " "), " ")

\* s.find(ch, start), counting from 1: 0 when ch is not there
RECURSIVE find(_, _, _)
find(s, ch, start) ==
    IF start > Len(s) THEN 0
    ELSE IF SubSeq(s, start, start) = ch THEN start
    ELSE find(s, ch, start + 1)

\* s.replace(old, new)
RECURSIVE replace(_, _, _)
replace(s, old, new) ==
    IF Len(s) < Len(old) \/ old = "" THEN s
    ELSE IF startswith(s, old) THEN new \o replace(SubSeq(s, Len(old) + 1, Len(s)), old, new)
    ELSE SubSeq(s, 1, 1) \o replace(SubSeq(s, 2, Len(s)), old, new)

\* s.split(None, maxsplit=1) of a stripped string
split_maxsplit_1(s) ==
    LET i == find(s, " ", 1)
    IN IF s = "" THEN <<>>
       ELSE IF i = 0 THEN <<s>>
       ELSE <<SubSeq(s, 1, i - 1), lstrip(SubSeq(s, i + 1, Len(s)), " ")>>

\* shlex.split(s): the words between runs of blanks
RECURSIVE shlex_words(_, _, _)
shlex_words(s, word, acc) ==
    IF s = "" THEN (IF word = "" THEN acc ELSE Append(acc, word))
    ELSE LET c == SubSeq(s, 1, 1)
             r == SubSeq(s, 2, Len(s))
         IN IF c = " " THEN shlex_words(r, "", IF word = "" THEN acc ELSE Append(acc, word))
            ELSE shlex_words(r, word \o c, acc)

shlex_split(s) == shlex_words(s, "", <<>>)

HOME == "/h"        \* the home directory of the user

\* os.path.expanduser, on a host where no user is named by a path of the model
expanduser(path) ==
    IF ~startswith(path, "~") THEN path
    ELSE LET j == find(path, "/", 2)
             i == IF j = 0 THEN Len(path) + 1 ELSE j
         IN IF i # 2 THEN path
            ELSE LET r == rstrip(HOME, "/") \o SubSeq(path, i, Len(path))
                 IN IF r = "" THEN "/" ELSE r

\* Path(s), printed: runs of slashes collapsed (two leading slashes kept, as
\* POSIX has it), no trailing slash, "." for the empty path
RECURSIVE collapse(_)
collapse(s) == IF find(s, "/", 1) # 0 /\ replace(s, "//", "/") # s THEN collapse(replace(s, "//", "/")) ELSE s

Path(s) ==
    IF s = "" THEN "."
    ELSE LET two == startswith(s, "//") /\ ~startswith(s, "///")
             c == collapse(s)
             t == IF c = "/" THEN c ELSE rstrip(c, "/")
         IN IF two THEN "/" \o t ELSE t

(***************************************************************************)
(* Task definitions.  A script is the sequence of its lines (what          *)
(* script.split("\n") gives and "\n".join(lines) takes back).              *)
(***************************************************************************)
Keywords == {"DEPENDS_ON", "CONFLICTS_WITH", "PREREQ_FOR"}

DirectiveLines == {kw \o " " \o n : kw \in Keywords, n \in Names} \cup {"SENDFILE " \o f : f \in Files}

\* task in all_tasks, with list_tasks() always finding the task
in_all_tasks_always(task) == TRUE

\* task in all_tasks
in_all_tasks(task) == task \in Names

\* the (source, destination, optional) entry with the two arguments swapped
include_entry_swapped(args, optional) ==
    IF Len(args) = 3 THEN <<args[3], args[2], optional>> ELSE <<args[2], args[2], optional>>

\* include_files.append((args[1], args[2], optional)) and its one-argument form
include_entry(args, optional) ==
    IF Len(args) = 3 THEN <<args[2], args[3], optional>> ELSE <<args[2], args[2], optional>>

\* The body of the loop over the lines: st holds the lists built so far,
\* the lines as rewritten so far, and the exception raised, if any.
parse_line(st, i) ==
    LET line == strip(st.lines[i])
        parts == split_maxsplit_1(line)
        args == shlex_split(line)
        IndexError == [st EXCEPT !.exc = [kind |-> "IndexError", a |-> line, b |-> None]]
        YoExc == [st EXCEPT !.exc = [kind |-> "YoExc", a |-> line, b |-> None]]
    IN IF startswith(line, "DEPENDS_ON")
       THEN IF Len(parts) < 2 THEN IndexError
            ELSE [st EXCEPT !.dependencies = Append(@, parts[2])]
       ELSE IF startswith(line, "CONFLICTS_WITH")
       THEN IF Len(parts) < 2 THEN IndexError
            ELSE [st EXCEPT !.conflicts = Append(@, parts[2])]
       ELSE IF startswith(line, "MAYBE_DEPENDS_ON")
       THEN IF Len(parts) < 2 THEN IndexError
            ELSE IF in_all_tasks(parts[2])
            THEN [st EXCEPT !.dependencies = Append(@, parts[2]),
                            !.lines[i] = replace(line, "MAYBE_DEPENDS_ON", "DEPENDS_ON")]
            ELSE [st EXCEPT !.lines[i] = replace(line, "MAYBE_DEPENDS_ON", "# MAYBE_DEPENDS_ON")]
       ELSE IF startswith(line, "PREREQ_FOR")
       THEN IF Len(parts) < 2 THEN IndexError
            ELSE [st EXCEPT !.prereq_for = Append(@, parts[2])]
       ELSE IF startswith(line, "INCLUDE_FILE")
       THEN IF Len(args) \in {2, 3}
            THEN [st EXCEPT !.include_files = Append(@, include_entry(args, FALSE)),
                            !.lines[i] = "# " \o line]
            ELSE YoExc
       ELSE IF startswith(line, "MAYBE_INCLUDE_FILE")
       THEN IF Len(args) \in {2, 3}
            THEN [st EXCEPT !.include_files = Append(@, include_entry(args, TRUE)),
                            !.lines[i] = "# " \o line]
            ELSE YoExc
       ELSE IF startswith(line, "SENDFILE")
       THEN IF Len(args) # 2 THEN YoExc
            ELSE [st EXCEPT !.sendfiles = Append(@, Path(expanduser(args[2]))),
                            !.lines[i] = "# " \o line]
       ELSE st

RECURSIVE parse_lines(_, _)
parse_lines(st, i) ==
    IF i > Len(st.lines) \/ st.exc # NoExc THEN st
    ELSE parse_lines(parse_line(st, i), i + 1)

\* YoTask.create_from_string: the exception raised, or else the task
create_from_string(name, script) ==
    LET st == parse_lines([lines |-> script, dependencies |-> <<>>, conflicts |-> <<>>,
                           prereq_for |-> <<>>, include_files |-> <<>>, sendfiles |-> <<>>,
                           exc |-> NoExc], 1)
    IN IF st.exc # NoExc THEN [exc |-> st.exc]
       ELSE [exc |-> NoExc,
             task |-> [name |-> name,
                       script |-> st.lines,
                       dependencies |-> st.dependencies,
                       conflicts |-> st.conflicts,
                       prereq_for |-> st.prereq_for,
                       include_files |-> st.include_files,
                       sendfiles |-> st.sendfiles]]

\* The task directory: every name of Names has a script file.  A catalog is
\* written as at most MaxLines directive lines spread over the scripts.
CatalogOf(lines) ==
    [n \in Names |->
        LET mine == SelectSeq(lines, LAMBDA l : l[1] = n)
        IN [i \in 1..Len(mine) |-> mine[i][2]]]

Catalogs ==
    {CatalogOf(lines) : lines \in SeqsUpTo({<<n, d>> : n \in Names, d \in DirectiveLines}, MaxLines)}

\* YoTask.load: the task of that name, parsed from its script file.
load(cat, name) == create_from_string(name, cat[name]).task

\* insert_prereq with the script rewritten and the dependency list forgotten
insert_prereq_script_only(task, other) ==
    [task EXCEPT !.script = <<"DEPENDS_ON " \o other>> \o @]

\* insert_prereq leaving alone a task that already depends on the other
insert_prereq_once(task, other) ==
    IF InSeq(other, task.dependencies) THEN task
    ELSE [task EXCEPT !.dependencies = Append(@, other),
                      !.script = <<"DEPENDS_ON " \o other>> \o @]

\* YoTask.insert_prereq
insert_prereq(task, other) ==
    [task EXCEPT !.dependencies = Append(@, other),
                 !.script = <<"DEPENDS_ON " \o other>> \o @]

(***************************************************************************)
(* standardize_globs.                                                      *)
(***************************************************************************)
\* system.append((pattern, dest, optional)), the destination left rooted
system_entry_rooted(pattern, dest, optional) == <<pattern, dest, optional>>

\* system.append((pattern, dest.lstrip("/"), optional))
system_entry(pattern, dest, optional) == <<pattern, lstrip(dest, "/"), optional>>

\* user.append((pattern, dest[2:].lstrip("/"), optional))
user_entry(pattern, dest, optional) == <<pattern, lstrip(SubSeq(dest, 3, Len(dest)), "/"), optional>>

\* The loop of standardize_globs over include_files, from its entry i on.
RECURSIVE standardize_from(_, _, _, _)
standardize_from(include_files, i, user, system) ==
    IF i > Len(include_files) THEN [exc |-> NoExc, user |-> user, system |-> system]
    ELSE LET pattern == expanduser(include_files[i][1])
             dest == include_files[i][2]
             optional == include_files[i][3]
         IN IF ~startswith(pattern, "/")
            THEN [exc |-> [kind |-> "YoExc", a |-> pattern, b |-> None]]
            ELSE IF startswith(dest, "~/")
            THEN standardize_from(include_files, i + 1, Append(user, user_entry(pattern, dest, optional)), system)
            ELSE IF startswith(dest, "/")
            THEN standardize_from(include_files, i + 1, user, Append(system, system_entry(pattern, dest, optional)))
            ELSE [exc |-> [kind |-> "YoExc", a |-> dest, b |-> None]]

\* standardize_globs: the exception raised, or else the two lists
standardize_globs(include_files) == standardize_from(include_files, 1, <<>>, <<>>)

(***************************************************************************)
(* build_tarball.  The local file system is a function from the paths that *)
(* exist to their kind and modification time; it holds no symbolic links.  *)
(***************************************************************************)
\* maybe_file.is_file(), maybe_file.is_dir()
is_file(tree, p) == p \in DOMAIN tree /\ tree[p].kind = "file"

is_dir(tree, p) == p \in DOMAIN tree /\ tree[p].kind = "dir"

\* Path.name: what follows the last slash
RECURSIVE name_of(_)
name_of(p) ==
    LET i == find(p, "/", 1)
    IN IF i = 0 THEN p ELSE name_of(SubSeq(p, i + 1, Len(p)))

\* destpath / name, the destination directory forgotten
joinpath_flat(a, b) == b

\* destpath / name
joinpath(a, b) == IF a = "." THEN b ELSE IF endswith(a, "/") THEN a \o b ELSE a \o "/" \o b

\* Whether a glob pattern matches a relative path: "*" stands for any run of
\* characters of one component.
RECURSIVE glob_match(_, _)
glob_match(pat, str) ==
    IF pat = "" THEN str = ""
    ELSE IF SubSeq(pat, 1, 1) = "*"
    THEN \/ glob_match(SubSeq(pat, 2, Len(pat)), str)
         \/ str # "" /\ SubSeq(str, 1, 1) # "/" /\ glob_match(pat, SubSeq(str, 2, Len(str)))
    ELSE /\ str # ""
         /\ SubSeq(str, 1, 1) = SubSeq(pat, 1, 1)
         /\ glob_match(SubSeq(pat, 2, Len(pat)), SubSeq(str, 2, Len(str)))

\* globroot.glob(pat): the paths below globroot that match
glob(tree, globroot, pat) ==
    LET below == IF globroot = "/" THEN "/" ELSE globroot \o "/"
    IN {p \in DOMAIN tree : startswith(p, below) /\ glob_match(pat, SubSeq(p, Len(below) + 1, Len(p)))}

\* list(...): the matches in the order the directory gives them
RECURSIVE listing(_)
listing(S) == IF S = {} THEN <<>> ELSE LET x == CHOOSE y \in S : TRUE IN <<x>> \o listing(S \ {x})

\* The first loop of build_tarball: the (source, destination) pairs, or YoExc.
RECURSIVE resolve_pairs(_, _, _, _)
resolve_pairs(tree, include_files, i, pairs) ==
    IF i > Len(include_files) THEN [exc |-> NoExc, pairs |-> pairs]
    ELSE LET pattern == include_files[i][1]
             dest == include_files[i][2]
             optional == include_files[i][3]
             destpath == Path(dest)
             maybe_file == Path(pattern)
             globroot == IF startswith(pattern, "~/") THEN Path(HOME) ELSE "/"
             matches == listing(glob(tree, globroot, lstrip(SubSeq(pattern, 2, Len(pattern)), "/")))
         IN IF is_file(tree, maybe_file)
            THEN resolve_pairs(tree, include_files, i + 1,
                    Append(pairs, <<maybe_file,
                                    IF dest = "" \/ endswith(dest, "/")
                                    THEN joinpath(destpath, name_of(maybe_file)) ELSE destpath>>))
            ELSE IF is_dir(tree, maybe_file)
            THEN resolve_pairs(tree, include_files, i + 1, Append(pairs, <<maybe_file, destpath>>))
            ELSE IF matches = <<>> /\ ~optional
            THEN [exc |-> [kind |-> "YoExc", a |-> "not found", b |-> pattern]]
            ELSE IF pattern = dest
            THEN [exc |-> [kind |-> "YoExc", a |-> "destination", b |-> pattern]]
            ELSE resolve_pairs(tree, include_files, i + 1,
                    pairs \o [k \in 1..Len(matches) |-> <<matches[k], joinpath(destpath, name_of(matches[k]))>>])

\* The loop over the pairs once the archive exists: whether it breaks.  What
\* is beneath a directory is what os.walk finds there.
need_rebuild(tree, pairs, mtime) ==
    \E k \in 1..Len(pairs) :
        LET file_or_dir == pairs[k][1]
        IN \/ tree[file_or_dir].mtime > mtime
           \/ /\ tree[file_or_dir].kind = "dir"
              /\ \E q \in DOMAIN tree : startswith(q, file_or_dir \o "/") /\ tree[q].mtime > mtime

\* tmp_path.symlink_to(src), pair after pair: a link where one is already
\* (or at the staging directory itself) is a FileExistsError.
RECURSIVE staging(_, _, _)
staging(pairs, i, staged) ==
    IF i > Len(pairs) THEN NoExc
    ELSE IF pairs[i][2] \in staged \cup {"."}
    THEN [kind |-> "FileExistsError", a |-> pairs[i][2], b |-> None]
    ELSE staging(pairs, i + 1, staged \cup {pairs[i][2]})

\* tar -czhf tarball members...: tar writes the archive, stamped with the time
\* it runs at, unless it is given no member to put in it.
tar(tree, now, tarball, members) ==
    IF members = <<>> THEN tree
    ELSE [p \in DOMAIN tree \cup {tarball} |-> IF p = tarball THEN [kind |-> "file", mtime |-> now] ELSE tree[p]]

\* build_tarball: the exception, the file system it leaves, the member lists
\* of the subprocesses it ran and the lines it logged.
build_tarball(tree, now, include_files, tarball) ==
    LET r == resolve_pairs(tree, include_files, 1, <<>>)
        idle == [exc |-> NoExc, tree |-> tree, runs |-> <<>>, logs |-> <<>>]
        verb == IF tarball \in DOMAIN tree THEN "rebuilding" ELSE "building"
        members == [k \in 1..Len(r.pairs) |-> r.pairs[k][2]]
    IN IF r.exc # NoExc THEN [idle EXCEPT !.exc = r.exc]
       ELSE IF tarball \in DOMAIN tree /\ ~need_rebuild(tree, r.pairs, tree[tarball].mtime) THEN idle
       ELSE IF staging(r.pairs, 1, {}) # NoExc
       THEN [idle EXCEPT !.exc = staging(r.pairs, 1, {}), !.logs = <<verb>>]
       ELSE [exc |-> NoExc, tree |-> tar(tree, now, tarball, members), runs |-> <<members>>, logs |-> <<verb>>]

\* The local files of the model: a file, a directory with a file in it, and
\* two files that the pattern /s/x* matches; the archive is /t.
Sources == {"/s/f", "/s/dir", "/s/dir/n", "/s/x1", "/s/x2"}

KindOf(p) == IF p = "/s/dir" THEN "dir" ELSE "file"

Tarball == "/t"

\* The file systems with the paths of S in them, dated with times of M.
Trees(S, M) == {[p \in S |-> [kind |-> KindOf(p), mtime |-> m[p]]] : m \in [S -> M]}

WithArchive(tree, mtime) ==
    [p \in DOMAIN tree \cup {Tarball} |-> IF p = Tarball THEN [kind |-> "file", mtime |-> mtime] ELSE tree[p]]

Started == 3        \* the time at which the first call is made

(***************************************************************************)
(* TaskPlan.  name_to_task is a dict: its keys, in insertion order, are    *)
(* the sequence name_to_task; its values are the shared task objects.      *)
(***************************************************************************)
\* d[k] = v on a dict's key order: a new key goes last, a known key stays.
DictSet(keys, k) == IF InSeq(k, keys) THEN keys ELSE Append(keys, k)

RECURSIVE seed_request(_, _)
seed_request(req, keys) ==
    IF req = <<>> THEN keys
    ELSE seed_request(Tail(req), DictSet(keys, Head(req)))

\* the scan with a loaded task not enqueued for a scan of its own
RECURSIVE scan_dependencies_no_enqueue(_, _)
scan_dependencies_no_enqueue(deps, st) ==
    IF deps = <<>> THEN st
    ELSE LET name == Head(deps)
         IN scan_dependencies_no_enqueue(Tail(deps),
                IF InSeq(name, st.keys) THEN st
                ELSE [keys |-> Append(st.keys, name),
                      to_load |-> st.to_load])

\* for name in task.dependencies: load what the plan does not hold yet
RECURSIVE scan_dependencies(_, _)
scan_dependencies(deps, st) ==
    IF deps = <<>> THEN st
    ELSE LET name == Head(deps)
         IN scan_dependencies(Tail(deps),
                IF InSeq(name, st.keys) THEN st
                ELSE [keys |-> Append(st.keys, name),
                      to_load |-> Append(st.to_load, name)])

\* for task in tasks_to_load, a list that grows while it is walked
RECURSIVE load_all(_, _, _)
load_all(T, st, i) ==
    IF i > Len(st.to_load) THEN st.keys
    ELSE load_all(T, scan_dependencies(T[st.to_load[i]].dependencies, st), i + 1)

\* TaskPlan.__init__: the keys of name_to_task
TaskPlan_init(T, req) ==
    LET keys == seed_request(req, <<>>)
    IN load_all(T, [keys |-> keys, to_load |-> keys], 1)

\* for name in task.prereq_for: if name in self.name_to_task: insert_prereq
RECURSIVE fold_prereqs(_, _, _, _)
fold_prereqs(T, keys, tname, names) ==
    IF names = <<>> THEN T
    ELSE LET name == Head(names)
         IN fold_prereqs(
                IF InSeq(name, keys) THEN [T EXCEPT ![name] = insert_prereq(@, tname)] ELSE T,
                keys, tname, Tail(names))

\* the conflict check without "if name in self.name_to_task"
first_conflict_any(keys, conflicts) ==
    IF conflicts = <<>> THEN None ELSE Head(conflicts)

\* for name in task.conflicts: the first one that is in the plan, if any
RECURSIVE first_conflict(_, _)
first_conflict(keys, conflicts) ==
    IF conflicts = <<>> THEN None
    ELSE IF InSeq(Head(conflicts), keys) THEN Head(conflicts)
    ELSE first_conflict(keys, Tail(conflicts))

RECURSIVE check_from(_, _, _)
check_from(T, keys, i) ==
    IF i > Len(keys) THEN [tasks |-> T, exc |-> NoExc]
    ELSE LET tname == keys[i]
             T1 == fold_prereqs(T, keys, tname, T[tname].prereq_for)
             c == first_conflict(keys, T1[tname].conflicts)
         IN IF c # None
            THEN [tasks |-> T1, exc |-> [kind |-> "conflict", a |-> tname, b |-> c]]
            ELSE check_from(T1, keys, i + 1)

\* TaskPlan._prepare_prereqs_check_conflicts
prepare_prereqs_check_conflicts(T, keys) == check_from(T, keys, 1)

\* TaskPlan._create_execution_order: visit() and its loop over the
\* dependencies.  st = [mark: name -> 0, 1 or 2, ordered, exc].
RECURSIVE visit(_, _, _, _), visit_dependencies(_, _, _, _)
\* visit() appending the task before its dependencies are visited
visit_preorder(T, keys, st, name) ==
    IF st.mark[name] = 2 THEN st
    ELSE IF st.mark[name] = 1
    THEN [st EXCEPT !.exc = [kind |-> "circular", a |-> name, b |-> None]]
    ELSE LET s1 == visit_dependencies(T, keys,
                    [st EXCEPT !.mark[name] = 1, !.ordered = Append(@, name)],
                    T[name].dependencies)
         IN IF s1.exc # NoExc THEN s1 ELSE [s1 EXCEPT !.mark[name] = 2]

\* visit() taking a task that is being visited for one already completed
visit_two_colours(T, keys, st, name) ==
    IF st.mark[name] # 0 THEN st
    ELSE LET s1 == visit_dependencies(T, keys, [st EXCEPT !.mark[name] = 1], T[name].dependencies)
         IN IF s1.exc # NoExc THEN s1
            ELSE [s1 EXCEPT !.mark[name] = 2, !.ordered = Append(@, name)]

visit(T, keys, st, name) ==
    IF st.mark[name] = 2 THEN st
    ELSE IF st.mark[name] = 1
    THEN [st EXCEPT !.exc = [kind |-> "circular", a |-> name, b |-> None]]
    ELSE LET s1 == visit_dependencies(T, keys, [st EXCEPT !.mark[name] = 1], T[name].dependencies)
         IN IF s1.exc # NoExc THEN s1
            ELSE [s1 EXCEPT !.mark[name] = 2, !.ordered = Append(@, name)]

visit_dependencies(T, keys, st, deps) ==
    IF deps = <<>> \/ st.exc # NoExc THEN st
    ELSE LET dep_name == Head(deps)
         IN IF ~InSeq(dep_name, keys)
            THEN [st EXCEPT !.exc = [kind |-> "KeyError", a |-> dep_name, b |-> None]]
            ELSE visit_dependencies(T, keys, visit(T, keys, st, dep_name), Tail(deps))

\* for task in self.name_to_task.values(): visit(task)
RECURSIVE visit_all(_, _, _, _)
visit_all(T, keys, st, i) ==
    IF i > Len(keys) \/ st.exc # NoExc THEN st
    ELSE visit_all(T, keys, visit(T, keys, st, keys[i]), i + 1)

create_execution_order(T, keys) ==
    visit_all(T, keys, [mark |-> [n \in Names |-> 0], ordered |-> <<>>, exc |-> NoExc], 1)

\* Where the archives of a task are staged.
staging_dir(name) == HOME \o "/.cache/yo/task-files/" \o name

\* staging_dir.mkdir(parents=True, exist_ok=True)
mkdir(tree, now, dir) ==
    IF dir \in DOMAIN tree THEN tree
    ELSE [p \in DOMAIN tree \cup {dir} |-> IF p = dir THEN [kind |-> "dir", mtime |-> now] ELSE tree[p]]

\* self.sendfiles.append(tarball), reached when build_tarball (whose result
\* is r) raised nothing.
archive_built(st, r, tarball) ==
    [task |-> IF r.exc = NoExc THEN [st.task EXCEPT !.sendfiles = Append(@, tarball)] ELSE st.task,
     tree |-> r.tree,
     runs |-> st.runs \o r.runs,
     logs |-> st.logs \o r.logs,
     exc |-> r.exc]

\* One partition of YoTask.prepare_files: if the list is not empty, build its
\* archive and append the archive to sendfiles.  st holds the task, the file
\* system, the subprocesses run, the lines logged and the exception.
prepare_partition(st, now, globs, tarball) ==
    IF st.exc # NoExc \/ globs = <<>> THEN st
    ELSE archive_built(st, build_tarball(st.tree, now, globs, tarball), tarball)

\* self.include_files.clear(), reached when nothing was raised
include_files_clear(st) ==
    IF st.exc # NoExc THEN st ELSE [st EXCEPT !.task.include_files = <<>>]

\* the two partitions with the system archive built and appended first
build_archives_system_first(st, g, now) ==
    IF g.exc # NoExc THEN [st EXCEPT !.exc = g.exc]
    ELSE include_files_clear(
            prepare_partition(
                prepare_partition(st, now, g.system, staging_dir(st.task.name) \o "/system.tar.gz"),
                now, g.user, staging_dir(st.task.name) \o "/user.tar.gz"))

\* YoTask.prepare_files from standardize_globs (whose result is g) on: the
\* user archive, then the system archive, then the clearing.
build_archives(st, g, now) ==
    IF g.exc # NoExc THEN [st EXCEPT !.exc = g.exc]
    ELSE include_files_clear(
            prepare_partition(
                prepare_partition(st, now, g.user, staging_dir(st.task.name) \o "/user.tar.gz"),
                now, g.system, staging_dir(st.task.name) \o "/system.tar.gz"))

\* YoTask.prepare_files
prepare_files(st, now) ==
    IF st.task.include_files = <<>> THEN st
    ELSE build_archives([st EXCEPT !.tree = mkdir(@, now, staging_dir(st.task.name))],
                        standardize_globs(st.task.include_files), now)

\* One turn of the loop of TaskPlan._prepare_files, after prepare_files
\* (whose result is r): the task as it is left, and the YoExc for the
\* sendfiles that are no file.
verify_sendfiles(pl, name, r) ==
    [tasks |-> [pl.tasks EXCEPT ![name] = r.task],
     tree |-> r.tree,
     runs |-> r.runs,
     logs |-> r.logs,
     exc |-> IF r.exc # NoExc THEN r.exc
             ELSE IF \E k \in 1..Len(r.task.sendfiles) : ~is_file(r.tree, r.task.sendfiles[k])
             THEN [kind |-> "missing", a |-> name,
                   b |-> SelectSeq(r.task.sendfiles, LAMBDA f : ~is_file(r.tree, f))]
             ELSE NoExc]

\* TaskPlan._prepare_files, from the task i of the order on: pl holds the
\* tasks, the file system, the subprocesses run, the lines logged and the
\* exception.  The first task with a sendfile that is no file ends it.
RECURSIVE plan_prepare_files(_, _, _, _)
plan_prepare_files(pl, ordered, now, i) ==
    IF i > Len(ordered) \/ pl.exc # NoExc THEN pl
    ELSE plan_prepare_files(
            verify_sendfiles(pl, ordered[i],
                prepare_files([task |-> pl.tasks[ordered[i]], tree |-> pl.tree, runs |-> pl.runs,
                               logs |-> pl.logs, exc |-> NoExc], now)),
            ordered, now, i + 1)

\* prepare() going on after a failed conflict check
prepare_past_conflict(T, keys, old_order, tree, now) ==
    LET p1 == prepare_prereqs_check_conflicts(T, keys)
        p2 == create_execution_order(p1.tasks, keys)
        idle == [tasks |-> p1.tasks, tree |-> tree, runs |-> <<>>, logs |-> <<>>, exc |-> NoExc]
    IN IF p2.exc # NoExc
       THEN [plan |-> [idle EXCEPT !.exc = p2.exc], ordered |-> p2.ordered]
       ELSE [plan |-> plan_prepare_files(idle, p2.ordered, now, 1), ordered |-> p2.ordered]

\* TaskPlan.prepare: the three phases; an exception ends it where it is
\* raised, with what the phases before it (and the failing one) changed.
prepare(T, keys, old_order, tree, now) ==
    LET p1 == prepare_prereqs_check_conflicts(T, keys)
        idle == [tasks |-> p1.tasks, tree |-> tree, runs |-> <<>>, logs |-> <<>>, exc |-> NoExc]
    IN IF p1.exc # NoExc
       THEN [plan |-> [idle EXCEPT !.exc = p1.exc], ordered |-> old_order]
       ELSE LET p2 == create_execution_order(p1.tasks, keys)
            IN IF p2.exc # NoExc
               THEN [plan |-> [idle EXCEPT !.exc = p2.exc], ordered |-> p2.ordered]
               ELSE [plan |-> plan_prepare_files(idle, p2.ordered, now, 1), ordered |-> p2.ordered]

\* What an external command can come to: subprocess.run without check=True
\* returns the completed process whatever its exit status.
Outcomes == {"ok", "failed"}

\* The directory the staging command echoes: nothing when ssh itself failed.
files_dir(name) == "$task_dir/" \o name \o "/files"

\* _task_run with subprocess.run(scp_cmd, check=True): a failing copy raises
task_run_checked(task, mkdir_out, scp_out, launch_out) ==
    IF task.sendfiles # <<>> /\ scp_out = "failed"
    THEN [exc |-> [kind |-> "CalledProcessError", a |-> task.name, b |-> None],
          cmds |-> <<[cmd |-> "ssh_mkdir", task |-> task.name, files |-> <<>>, dest |-> "", out |-> mkdir_out],
                     [cmd |-> "scp", task |-> task.name, files |-> task.sendfiles,
                      dest |-> (IF mkdir_out = "ok" THEN files_dir(task.name) ELSE "") \o "/", out |-> scp_out]>>]
    ELSE [exc |-> NoExc,
          cmds |-> (IF task.sendfiles # <<>>
                    THEN <<[cmd |-> "ssh_mkdir", task |-> task.name, files |-> <<>>, dest |-> "", out |-> mkdir_out],
                           [cmd |-> "scp", task |-> task.name, files |-> task.sendfiles,
                            dest |-> (IF mkdir_out = "ok" THEN files_dir(task.name) ELSE "") \o "/", out |-> scp_out]>>
                    ELSE <<>>)
                   \o <<[cmd |-> "ssh_launch", task |-> task.name, files |-> <<>>, dest |-> "", out |-> launch_out]>>]

\* _task_run: the external commands it issues, in order, with what each came
\* to, and the exception it raises.
task_run_commands(task, mkdir_out, scp_out, launch_out) ==
    [exc |-> NoExc,
     cmds |-> (IF task.sendfiles # <<>>
               THEN <<[cmd |-> "ssh_mkdir", task |-> task.name, files |-> <<>>, dest |-> "", out |-> mkdir_out],
                      [cmd |-> "scp", task |-> task.name, files |-> task.sendfiles,
                       dest |-> (IF mkdir_out = "ok" THEN files_dir(task.name) ELSE "") \o "/", out |-> scp_out]>>
               ELSE <<>>)
              \o <<[cmd |-> "ssh_launch", task |-> task.name, files |-> <<>>, dest |-> "", out |-> launch_out]>>]

\* _task_run, as the client sees it: the external commands, in order.
task_run(task) ==
    LET c == task_run_commands(task, "ok", "ok", "ok").cmds
    IN [k \in 1..Len(c) |-> [cmd |-> c[k].cmd, task |-> c[k].task]]

(***************************************************************************)
(* The plan's caller: TaskPlan(request); plan.prepare(ctx); and, only when *)
(* prepare returned normally, plan.run(ctx, inst).                         *)
(***************************************************************************)
NoDir == [pid |-> None, status |-> None, wait |-> None, status_old |-> None, output |-> None, script |-> None]

IdlePoll ==
    /\ remote = [n \in Dirs |-> NoDir]
    /\ wait_tasks = <<>>
    /\ status_dict = <<>>
    /\ join_pc = "idle"
    /\ polls = 0
    /\ task_previous_status = <<>>
    /\ join_log = <<>>
    /\ join_exc = None
    /\ found = {}

\* No launch of a task that a previous run had completed.
NoRelaunch == [task |-> None, status |-> None, pid |-> None, nwrap |-> 0]

\* No call, and a call that has not returned.
NoCall == [fn |-> "none"]

NoRet == [exc |-> [kind |-> "pending", a |-> None, b |-> None]]

IdleHost ==
    /\ local_tree = <<>>
    /\ clock = 0
    /\ tar_runs = <<>>
    /\ con_log = <<>>

IdleUnit ==
    /\ call = NoCall
    /\ ret = NoRet
    /\ IdleHost

IdleLaunch ==
    /\ launcher = [pc |-> "idle", task |-> None]
    /\ wrappers = <<>>
    /\ launches = [d \in Dirs |-> 0]
    /\ relaunch = NoRelaunch

InitPlan ==
    /\ catalog \in Catalogs
    /\ tasks = [n \in Names |-> load(catalog, n)]
    /\ local_tree \in UNION {Trees(S, {1}) : S \in SUBSET UNION {Range(load(catalog, n).sendfiles) : n \in Names}}
    /\ request \in Arrangements(Names)
    /\ name_to_task = <<>>
    /\ ordered_tasks = <<>>
    /\ pc = "start"
    /\ exc = NoExc
    /\ run_i = 0
    /\ ssh_log = <<>>
    /\ IdlePoll
    /\ IdleLaunch
    /\ call = NoCall
    /\ ret = NoRet
    /\ clock = Started
    /\ tar_runs = <<>>
    /\ con_log = <<>>

\* plan = TaskPlan(request)
Construct ==
    /\ pc = "start"
    /\ name_to_task' = TaskPlan_init(tasks, request)
    /\ ordered_tasks' = <<>>
    /\ pc' = "constructed"
    /\ UNCHANGED <<unitvars, catalog, tasks, request, exc, run_i, ssh_log, pollvars, launchvars>>

\* What prepare() (whose result is r) leaves behind.
prepare_leaves(r) ==
    /\ tasks' = r.plan.tasks
    /\ ordered_tasks' = r.ordered
    /\ exc' = r.plan.exc
    /\ local_tree' = r.plan.tree
    /\ tar_runs' = tar_runs \o r.plan.runs
    /\ con_log' = con_log \o r.plan.logs
    /\ pc' = IF r.plan.exc = NoExc THEN "prepared" ELSE "failed"

\* plan.prepare(ctx)
Prepare ==
    /\ pc = "constructed"
    /\ prepare_leaves(prepare(tasks, name_to_task, ordered_tasks, local_tree, clock))
    /\ UNCHANGED <<catalog, request, name_to_task, run_i, ssh_log, pollvars, launchvars, call, ret, clock>>

\* run() walking name_to_task.values() instead of ordered_tasks
RunTask_dict_order ==
    /\ pc = "prepared"
    /\ run_i < Len(ordered_tasks)
    /\ ssh_log' = ssh_log \o task_run(tasks[name_to_task[run_i + 1]])
    /\ run_i' = run_i + 1
    /\ UNCHANGED <<unitvars, catalog, tasks, request, name_to_task, ordered_tasks, pc, exc, pollvars, launchvars>>

\* plan.run(ctx, inst): one turn of its loop, a whole _task_run
RunTask ==
    /\ pc = "prepared"
    /\ run_i < Len(ordered_tasks)
    /\ ssh_log' = ssh_log \o task_run(tasks[ordered_tasks[run_i + 1]])
    /\ run_i' = run_i + 1
    /\ UNCHANGED <<unitvars, catalog, tasks, request, name_to_task, ordered_tasks, pc, exc, pollvars, launchvars>>

\* plan.run(ctx, inst): the loop is over
RunReturn ==
    /\ pc = "prepared"
    /\ run_i = Len(ordered_tasks)
    /\ pc' = "done"
    /\ UNCHANGED <<unitvars, catalog, tasks, request, name_to_task, ordered_tasks, exc, run_i, ssh_log, pollvars, launchvars>>

NextPlan == Construct \/ Prepare \/ RunTask \/ RunReturn

SpecPlan == InitPlan /\ [][NextPlan]_vars

(***************************************************************************)
(* Properties of the plan.                                                 *)
(***************************************************************************)
Keys == Range(name_to_task)

Pos(n) == IndexOf(n, ordered_tasks)

\* The dependency graph over the plan: t -> d when d is listed by t.
DepEdges(T, nodes) == {<<t, d>> : t \in nodes, d \in Names} \cap {e \in Names \X Names : InSeq(e[2], T[e[1]].dependencies)}

\* What is reachable from the set S along the edges E.
RECURSIVE Reach(_, _)
Reach(E, S) ==
    LET more == S \cup {e[2] : e \in {x \in E : x[1] \in S}}
    IN IF more = S THEN S ELSE Reach(E, more)

Cyclic(E) == \E e \in E : e[1] \in Reach(E, {e[2]})

HasConflict == \E t \in Keys, c \in Keys : InSeq(c, tasks[t].conflicts)

Prepared == pc \in {"prepared", "done"}

AfterPrepare == pc \in {"prepared", "done", "failed"}

\* C1: after prepare() returned normally, ordered_tasks holds every task of
\* name_to_task exactly once, and every name listed in a task's dependencies
\* (folded prerequisites and repeated names included) stands at a strictly
\* earlier position.
C1_OrderIsTopological ==
    Prepared =>
        /\ Len(ordered_tasks) = Cardinality(Keys)
        /\ Range(ordered_tasks) = Keys
        /\ \A i \in 1..Len(ordered_tasks) :
             LET deps == tasks[ordered_tasks[i]].dependencies
             IN \A k \in 1..Len(deps) : \E j \in 1..(i - 1) : ordered_tasks[j] = deps[k]

\* A prepared plan with a task that lists one dependency twice, once of them
\* by prerequisite folding.
C1_Witness ==
    /\ pc = "prepared"
    /\ \E t \in Keys :
         LET deps == tasks[t].dependencies
         IN /\ Len(deps) = 2 /\ deps[1] = deps[2]
            /\ Len(load(catalog, t).dependencies) = 1

\* C2: for a plan without conflicts, prepare() fails with the circular
\* dependency error exactly when the dependency graph over name_to_task, as it
\* is after prerequisite folding, has a directed cycle; on an acyclic graph
\* the ordering phase raises nothing.
C2_CircularIffCycle ==
    (AfterPrepare /\ ~HasConflict) =>
        /\ exc.kind = "circular" <=> Cyclic(DepEdges(tasks, Keys))
        /\ exc.kind # "KeyError"

\* A plan rejected for a cycle that only the PREREQ_FOR edge closes.
C2_Witness ==
    /\ pc = "failed"
    /\ exc.kind = "circular"
    /\ ~Cyclic(DepEdges([n \in Names |-> load(catalog, n)], Keys))

\* C3: if a task of the plan lists in its conflicts a key of name_to_task,
\* prepare() fails naming both tasks, before the ordering (ordered_tasks is
\* untouched) and before any remote command; a conflict name outside the
\* plan causes no failure.
C3_ConflictRejected ==
    AfterPrepare =>
        /\ HasConflict <=> exc.kind = "conflict"
        /\ exc.kind = "conflict" =>
             /\ exc.a \in Keys /\ exc.b \in Keys
             /\ InSeq(exc.b, tasks[exc.a].conflicts)
             /\ ordered_tasks = <<>>
             /\ ssh_log = <<>>

\* A plan rejected for a conflict with a task that was not requested but
\* loaded as a dependency.
C3_Witness ==
    /\ pc = "failed"
    /\ exc.kind = "conflict"
    /\ exc.b \notin Range(request)

\* C4: for A and B in the plan with B in A.prereq_for, after a successful
\* prepare() A is in B.dependencies and A stands before B in ordered_tasks; a
\* prereq_for name outside the plan adds no dependency edge and loads no task.
C4_PrereqFolded ==
    Prepared =>
        /\ \A A \in Keys, B \in Keys :
             InSeq(B, tasks[A].prereq_for) =>
                /\ InSeq(A, tasks[B].dependencies)
                /\ 0 < Pos(A) /\ Pos(A) < Pos(B)
        /\ \A B \in Names :
             Len(tasks[B].dependencies) =
                Len(load(catalog, B).dependencies)
                + (IF B \in Keys
                   THEN Cardinality({<<A, i>> \in Keys \X (1..MaxLines) :
                            i <= Len(tasks[A].prereq_for) /\ tasks[A].prereq_for[i] = B})
                   ELSE 0)
        /\ Keys = Reach(DepEdges([n \in Names |-> load(catalog, n)], Names), Range(request))

\* A prepared plan in which one task is a prerequisite for a task of the plan
\* and for a task outside it.
C4_Witness ==
    /\ pc = "prepared"
    /\ \E A \in Keys, B \in Keys, C \in Names \ Keys :
         InSeq(B, tasks[A].prereq_for) /\ InSeq(C, tasks[A].prereq_for)

\* C5: under the prepare-then-run protocol, a plan whose prepare() raises the
\* conflict error or the circular dependency error (a plan with a conflict or
\* a dependency cycle) issues no remote command: none of its tasks is launched.
C5_RejectedPlanLaunchesNothing ==
    (\/ exc.kind \in {"conflict", "circular"}
     \/ HasConflict
     \/ Cyclic(DepEdges(tasks, Keys)))
        => (ssh_log = <<>> /\ run_i = 0)

\* A plan rejected for a cycle after the ordering had already placed a task.
C5_Witness ==
    /\ pc = "failed"
    /\ exc.kind = "circular"
    /\ ordered_tasks # <<>>

LaunchesIn(log) == SelectSeq(log, LAMBDA c : c.cmd = "ssh_launch")

\* C6: run() launches the tasks of ordered_tasks once each, serially and in
\* list order, so the launch of a dependency is issued before the launch of
\* the task that depends on it.
C6_LaunchedInOrder ==
    LET L == LaunchesIn(ssh_log)
    IN /\ Len(L) = run_i
       /\ run_i <= Len(ordered_tasks)
       /\ \A i \in 1..Len(L) : L[i].task = ordered_tasks[i]
       /\ pc = "done" => run_i = Len(ordered_tasks)
       /\ \A i \in 1..Len(ssh_log), j \in 1..Len(ssh_log) :
            i < j => Pos(ssh_log[i].task) <= Pos(ssh_log[j].task)
       /\ \A i \in 1..Len(ssh_log) :
            ssh_log[i].cmd = "ssh_launch" =>
                \A d \in Range(tasks[ssh_log[i].task].dependencies) :
                    \E j \in 1..(i - 1) : ssh_log[j] = [cmd |-> "ssh_launch", task |-> d]

\* A finished run whose order differs from the order of name_to_task and
\* which sent files for a task.
C6_Witness ==
    /\ pc = "done"
    /\ ordered_tasks # name_to_task
    /\ \E i \in 1..Len(ssh_log) : ssh_log[i].cmd = "scp"

(***************************************************************************)
(* task_get_status.  A marker file holds one line; None is a file that is  *)
(* not there.  A code is a number or a string, never compared as equal.    *)
(***************************************************************************)
IntCode(n) == [n |-> n, s |-> None]

StrCode(str) == [n |-> 0, s |-> str]

\* int(statstr): the number with that decimal form; ValueError without one.
IsInt(str) == \E n \in 0..MaxInt : ToString(n) = str

int(str) == CHOOSE n \in 0..MaxInt : ToString(n) = str

MarkerKinds == <<"pid", "status", "wait">>

\* The (kind, content) pairs of one task, after stat_list.sort().
stat_list(dir) ==
    SelectSeq([i \in 1..3 |-> <<MarkerKinds[i], dir[MarkerKinds[i]]>>], LAMBDA m : m[2] # None)

\* The body of the loop over task_to_files.items()
classify(sl) ==
    IF Len(sl) = 1
    THEN IF ~IsInt(sl[1][2]) THEN [status |-> "ValueError", code |-> IntCode(0)]
         ELSE IF sl[1][1] = "pid" THEN [status |-> "RUNNING", code |-> IntCode(int(sl[1][2]))]
         ELSE IF int(sl[1][2]) = 0 THEN [status |-> "SUCCESS", code |-> IntCode(0)]
         ELSE [status |-> "FAIL", code |-> IntCode(0)]
    ELSE IF Len(sl) = 2 /\ sl[1][1] = "pid" /\ sl[2][1] = "wait"
    THEN [status |-> "WAITING", code |-> StrCode(sl[2][2])]
    ELSE [status |-> "UNKNOWN", code |-> IntCode(0)]

\* task_get_status: the mapping, or the exception that int() raised
task_get_status(R) ==
    LET present == {t \in DOMAIN R : stat_list(R[t]) # <<>>}
    IN IF \E t \in present : classify(stat_list(R[t])).status = "ValueError"
       THEN [exc |-> "ValueError", map |-> <<>>]
       ELSE [exc |-> None, map |-> [t \in present |-> classify(stat_list(R[t]))]]

PidContents == {"2", "3"}
StatusContents == {"0", "1"}
WaitContents == {"a", "b"}

MarkerDirs ==
    {[NoDir EXCEPT !.pid = p, !.status = st, !.wait = w] :
        p \in PidContents \cup {None}, st \in StatusContents \cup {None}, w \in WaitContents \cup {None}}

IdlePlan ==
    /\ catalog = [n \in Names |-> <<>>]
    /\ tasks = [n \in Names |-> load(catalog, n)]
    /\ request = <<>>
    /\ name_to_task = <<>>
    /\ ordered_tasks = <<>>
    /\ pc = "start"
    /\ exc = NoExc
    /\ run_i = 0
    /\ ssh_log = <<>>

InitStatus ==
    /\ IdlePlan
    /\ IdleLaunch
    /\ IdleUnit
    /\ remote \in [Dirs -> MarkerDirs]
    /\ wait_tasks = <<>>
    /\ status_dict = <<>>
    /\ join_pc = "idle"
    /\ polls = 0
    /\ task_previous_status = <<>>
    /\ join_log = <<>>
    /\ join_exc = None
    /\ found = {}

\* statuses = task_get_status(ctx, inst)
GetStatus ==
    /\ join_pc = "idle"
    /\ polls = 0
    /\ LET r == task_get_status(remote)
       IN /\ status_dict' = r.map
          /\ join_exc' = r.exc
    /\ polls' = 1
    /\ UNCHANGED <<unitvars, planvars, launchvars, remote, wait_tasks, join_pc, task_previous_status, join_log, found>>

NextStatus == GetStatus

SpecStatus == InitStatus /\ [][NextStatus]_vars

Markers(dir) == {k \in {"pid", "status", "wait"} : dir[k] # None}

Claimed(dir) ==
    IF Markers(dir) = {"pid"} THEN [status |-> "RUNNING", code |-> IntCode(int(dir.pid))]
    ELSE IF Markers(dir) = {"status"} /\ dir.status = "0" THEN [status |-> "SUCCESS", code |-> IntCode(0)]
    ELSE IF Markers(dir) = {"status"} THEN [status |-> "FAIL", code |-> IntCode(0)]
    ELSE IF Markers(dir) = {"pid", "wait"} THEN [status |-> "WAITING", code |-> StrCode(dir.wait)]
    ELSE [status |-> "UNKNOWN", code |-> IntCode(0)]

\* C7: task_get_status classifies each task by the markers present: {pid} is
\* RUNNING with the pid, {status} is SUCCESS or FAIL with code 0, {pid, wait}
\* is WAITING with the wait marker's content, every other combination
\* ({wait} alone included) is UNKNOWN with code 0, and a task without markers
\* is not in the mapping.
C7_Classification ==
    polls = 1 =>
        /\ join_exc = None
        /\ status_dict = [t \in {d \in Dirs : Markers(remote[d]) # {}} |-> Claimed(remote[t])]

\* C7, the part the code keeps: the same table whenever no task directory
\* holds a wait marker alone.
C7_ExceptWaitAlone ==
    (polls = 1 /\ \A d \in Dirs : Markers(remote[d]) # {"wait"}) =>
        /\ join_exc = None
        /\ status_dict = [t \in {d \in Dirs : Markers(remote[d]) # {}} |-> Claimed(remote[t])]

\* C7, where the code leaves the table: a wait marker alone, holding a task
\* name, makes int() raise and the poll returns no mapping at all.
C7_WaitAloneRaises ==
    (polls = 1 /\ \E d \in Dirs : Markers(remote[d]) = {"wait"}) => join_exc = "ValueError"

(***************************************************************************)
(* task_join: poll, log the transitions, decide, sleep.                    *)
(***************************************************************************)
DirOrder == <<"a", "b">>    \* the order of the sorted output of the poll

\* the statuses of a task that is not over, with RUNNING left out
Active_waiting_only == {"WAITING"}

Active == {"RUNNING", "WAITING"}

\* the lines of one poll with a "changing" line for every task seen before
RECURSIVE log_transitions_every_poll(_, _, _, _)
log_transitions_every_poll(sd, order, prev, log) ==
    IF order = <<>> THEN [prev |-> prev, log |-> log]
    ELSE LET task == Head(order)
             now == sd[task]
             line == IF task \notin DOMAIN prev
                     THEN <<[task |-> task, what |-> "starting", from |-> now, to |-> now]>>
                     ELSE <<[task |-> task, what |-> "changing", from |-> prev[task], to |-> now]>>
         IN log_transitions_every_poll(sd, Tail(order),
                [t \in DOMAIN prev \cup {task} |-> IF t = task THEN now ELSE prev[t]],
                log \o line)

\* The lines one poll logs, and the record it leaves: for each task of the
\* mapping, in order, "starting" on first appearance, "changing" when the
\* (status, code) pair differs from the recorded one.
RECURSIVE log_transitions(_, _, _, _)
log_transitions(sd, order, prev, log) ==
    IF order = <<>> THEN [prev |-> prev, log |-> log]
    ELSE LET task == Head(order)
             now == sd[task]
             line == IF task \notin DOMAIN prev
                     THEN <<[task |-> task, what |-> "starting", from |-> now, to |-> now]>>
                     ELSE IF prev[task].status # now.status \/ prev[task].code # now.code
                     THEN <<[task |-> task, what |-> "changing", from |-> prev[task], to |-> now]>>
                     ELSE <<>>
         IN log_transitions(sd, Tail(order),
                [t \in DOMAIN prev \cup {task} |-> IF t = task THEN now ELSE prev[t]],
                log \o line)

\* all(...) with a name the mapping lacks counted as finished
RECURSIVE all_finished_skip_missing(_, _)
all_finished_skip_missing(sd, wt) ==
    IF wt = <<>> THEN "True"
    ELSE IF Head(wt) \notin DOMAIN sd THEN all_finished_skip_missing(sd, Tail(wt))
    ELSE IF sd[Head(wt)].status \in Active THEN "False"
    ELSE all_finished_skip_missing(sd, Tail(wt))

\* all(status_dict[wt][0] not in ("RUNNING", "WAITING") for wt in wait_tasks):
\* it stops at the first False, and a name the mapping lacks is a KeyError.
RECURSIVE all_finished(_, _)
all_finished(sd, wt) ==
    IF wt = <<>> THEN "True"
    ELSE IF Head(wt) \notin DOMAIN sd THEN "KeyError"
    ELSE IF sd[Head(wt)].status \in Active THEN "False"
    ELSE all_finished(sd, Tail(wt))

\* can_terminate with any() in the place of all()
can_terminate_any(sd, wt) ==
    IF wt = <<>>
    THEN IF \E t \in DOMAIN sd : sd[t].status \in Active THEN "False" ELSE "True"
    ELSE IF \E i \in 1..Len(wt) : wt[i] \in DOMAIN sd /\ sd[wt[i]].status \notin Active
    THEN "True" ELSE all_finished(sd, wt)

\* can_terminate
can_terminate(sd, wt) ==
    IF wt = <<>>
    THEN IF \E t \in DOMAIN sd : sd[t].status \in Active THEN "False" ELSE "True"
    ELSE all_finished(sd, wt)

\* The task directories the join is run against.
JoinDirs == {m \in MarkerDirs : m.wait # "b" /\ m.pid # "3"}

InitJoin ==
    /\ IdlePlan
    /\ IdleLaunch
    /\ IdleUnit
    /\ remote \in [Dirs -> JoinDirs]
    /\ wait_tasks = <<>>
    /\ status_dict = <<>>
    /\ join_pc = "idle"
    /\ polls = 0
    /\ task_previous_status = <<>>
    /\ join_log = <<>>
    /\ join_exc = None
    /\ found = {}

\* task_join(ctx, inst, wait_tasks) is called
JoinStart ==
    /\ join_pc = "idle"
    /\ launcher.pc = "idle"
    /\ wait_tasks' \in Arrangements(Dirs) \cup {<<>>}
    /\ join_pc' = "poll"
    /\ polls' = 0
    /\ task_previous_status' = <<>>
    /\ join_log' = <<>>
    /\ UNCHANGED <<unitvars, planvars, launchvars, remote, status_dict, join_exc, found>>

\* One turn of the loop, up to the sleep.
JoinPoll ==
    /\ join_pc = "poll"
    /\ LET r == task_get_status(remote)
           tr == log_transitions(r.map, SelectSeq(DirOrder, LAMBDA t : t \in DOMAIN r.map),
                                 task_previous_status, <<>>)
           ct == can_terminate(r.map, wait_tasks)
       IN IF r.exc # None
          THEN /\ join_exc' = r.exc
               /\ join_pc' = "raised"
               /\ UNCHANGED <<unitvars, status_dict, task_previous_status, join_log>>
          ELSE /\ status_dict' = r.map
               /\ task_previous_status' = tr.prev
               /\ join_log' = tr.log
               /\ join_exc' = IF ct = "KeyError" THEN "KeyError" ELSE None
               /\ join_pc' = CASE ct = "KeyError" -> "raised"
                               [] ct = "True" -> "returned"
                               [] OTHER -> "sleep"
    /\ polls' = IF polls < MaxPolls THEN polls + 1 ELSE polls
    /\ UNCHANGED <<unitvars, planvars, launchvars, remote, wait_tasks, found>>

\* time.sleep(1): while the join sleeps the target host goes on, and the
\* marker files the next poll finds are any at all.
Sleep ==
    /\ join_pc = "sleep"
    /\ join_pc' = "poll"
    /\ remote' \in [Dirs -> JoinDirs]
    /\ UNCHANGED <<unitvars, planvars, launchvars, wait_tasks, status_dict, polls, task_previous_status, join_log, join_exc, found>>

NextJoin == JoinStart \/ JoinPoll \/ Sleep

SpecJoin == InitJoin /\ [][NextJoin]_vars

\* The termination condition of a poll with mapping sd and wait set wt.
TermCond(sd, wt) ==
    IF wt = <<>>
    THEN \A t \in DOMAIN sd : sd[t].status \notin Active
    ELSE \A t \in Range(wt) : t \in DOMAIN sd /\ sd[t].status \notin Active

\* C8: task_join returns at the first poll at which its termination condition
\* holds and at no earlier one: a poll after which the join sleeps (or fails
\* on a missing name) did not satisfy the condition, the poll at which it
\* returns does, whatever the tasks outside the wait set are doing, and the
\* mapping returned is the mapping of that poll.
C8_ReturnsAtFirstTerminalPoll ==
    /\ join_pc = "returned" =>
         /\ TermCond(status_dict, wait_tasks)
         /\ status_dict = task_get_status(remote).map
    /\ join_pc = "sleep" => ~TermCond(status_dict, wait_tasks)
    /\ (join_pc = "raised" /\ join_exc = "KeyError") => ~TermCond(status_dict, wait_tasks)

\* A join on a alone that returns at a poll after its first, when a has gone
\* from RUNNING to SUCCESS, while b is still RUNNING.
C8_Witness ==
    /\ join_pc = "returned"
    /\ wait_tasks = <<"a">>
    /\ "b" \in DOMAIN status_dict /\ status_dict["b"].status = "RUNNING"
    /\ status_dict["a"].status = "SUCCESS"
    /\ \E i \in 1..Len(join_log) : join_log[i].task = "a" /\ join_log[i].from.status = "RUNNING"

(***************************************************************************)
(* _task_run on the target host: the launch command string, one shell      *)
(* command at a time, and the detached wrapper it starts,                  *)
(*     sh -c 'bash -x ./script; echo $? >./status; rm ./pid'               *)
(* which runs beside it.  A wrapper is known by its process id, its place  *)
(* in wrappers.                                                            *)
(***************************************************************************)
RECURSIVE Sum(_, _)
Sum(f, S) == IF S = {} THEN 0 ELSE LET x == CHOOSE y \in S : TRUE IN f[x] + Sum(f, S \ {x})

InitLaunch ==
    /\ IdlePlan
    /\ IdlePoll
    /\ IdleLaunch
    /\ IdleUnit

\* ssh_into(..., cmds=[commands]): the client issues the launch command of
\* task t; mkdir -p "$TASK_DIR"; cd "$TASK_DIR"
IssueLaunch ==
    /\ launcher.pc = "idle"
    /\ join_pc = "idle"
    /\ Sum(launches, Dirs) < MaxLaunches
    /\ \E t \in Dirs :
         /\ launcher' = [pc |-> "test_status", task |-> t]
         /\ launches' = [launches EXCEPT ![t] = @ + 1]
         /\ relaunch' = IF remote[t].status # None /\ \A i \in 1..Len(wrappers) : wrappers[i].task = t => wrappers[i].pc = "done"
                        THEN [task |-> t, status |-> remote[t].status, pid |-> remote[t].pid, nwrap |-> Len(wrappers)]
                        ELSE NoRelaunch
    /\ UNCHANGED <<unitvars, planvars, pollvars, wrappers>>

\* if [ -f "status" ]
TestStatus ==
    /\ launcher.pc = "test_status"
    /\ launcher' = [launcher EXCEPT !.pc = IF remote[launcher.task].status # None
                                           THEN "rm_old" ELSE "write_script"]
    /\ UNCHANGED <<unitvars, planvars, pollvars, wrappers, launches, relaunch>>

\* rm -f "output", leaving the pid marker where it is
RmOld_keep_pid ==
    /\ launcher.pc = "rm_old"
    /\ remote' = [remote EXCEPT ![launcher.task].output = None]
    /\ launcher' = [launcher EXCEPT !.pc = "mv_status"]
    /\ UNCHANGED <<unitvars, planvars, wait_tasks, status_dict, join_pc, polls, task_previous_status, join_log, join_exc, found, wrappers, launches, relaunch>>

\* rm -f "output" "pid"
RmOld ==
    /\ launcher.pc = "rm_old"
    /\ remote' = [remote EXCEPT ![launcher.task].output = None, ![launcher.task].pid = None]
    /\ launcher' = [launcher EXCEPT !.pc = "mv_status"]
    /\ UNCHANGED <<unitvars, planvars, wait_tasks, status_dict, join_pc, polls, task_previous_status, join_log, join_exc, found, wrappers, launches, relaunch>>

\* mv "status" "status.old"
MvStatus ==
    /\ launcher.pc = "mv_status"
    /\ remote' = [remote EXCEPT ![launcher.task].status_old = remote[launcher.task].status,
                                ![launcher.task].status = None]
    /\ launcher' = [launcher EXCEPT !.pc = "write_script"]
    /\ UNCHANGED <<unitvars, planvars, wait_tasks, status_dict, join_pc, polls, task_previous_status, join_log, join_exc, found, wrappers, launches, relaunch>>

\* cat <<'heredoc' > ./script (and the extraction of the staged archives,
\* which touches no file of the task directory)
WriteScript ==
    /\ launcher.pc = "write_script"
    /\ remote' = [remote EXCEPT ![launcher.task].script = ToString(launches[launcher.task])]
    /\ launcher' = [launcher EXCEPT !.pc = "guard"]
    /\ UNCHANGED <<unitvars, planvars, wait_tasks, status_dict, join_pc, polls, task_previous_status, join_log, join_exc, found, wrappers, launches, relaunch>>

\* if [ -f ./pid ]; then echo Task is already running!; exit; fi
Guard ==
    /\ launcher.pc = "guard"
    /\ launcher' = IF remote[launcher.task].pid # None
                   THEN [pc |-> "idle", task |-> None]
                   ELSE [launcher EXCEPT !.pc = "spawn"]
    /\ UNCHANGED <<unitvars, planvars, pollvars, wrappers, launches, relaunch>>

\* nohup sh -c '...' >./output 2>&1 </dev/null &
Spawn ==
    /\ launcher.pc = "spawn"
    /\ wrappers' = Append(wrappers, [task |-> launcher.task, pc |-> "script", rc |-> None])
    /\ remote' = [remote EXCEPT ![launcher.task].output = ToString(Len(wrappers) + 1)]
    /\ launcher' = [launcher EXCEPT !.pc = "write_pid"]
    /\ UNCHANGED <<unitvars, planvars, wait_tasks, status_dict, join_pc, polls, task_previous_status, join_log, join_exc, found, launches, relaunch>>

\* echo $! >./pid, the last command of the string
WritePid ==
    /\ launcher.pc = "write_pid"
    /\ remote' = [remote EXCEPT ![launcher.task].pid = ToString(Len(wrappers))]
    /\ launcher' = [pc |-> "idle", task |-> None]
    /\ UNCHANGED <<unitvars, planvars, wait_tasks, status_dict, join_pc, polls, task_previous_status, join_log, join_exc, found, wrappers, launches, relaunch>>

\* bash -x ./script comes to its end, with exit code 0 or 1
ScriptExits ==
    \E i \in 1..Len(wrappers), rc \in {"0", "1"} :
        /\ wrappers[i].pc = "script"
        /\ wrappers' = [wrappers EXCEPT ![i].pc = "write_status", ![i].rc = rc]
        /\ UNCHANGED <<unitvars, planvars, pollvars, launcher, launches, relaunch>>

\* echo $? >./status
WriteStatus ==
    \E i \in 1..Len(wrappers) :
        /\ wrappers[i].pc = "write_status"
        /\ remote' = [remote EXCEPT ![wrappers[i].task].status = wrappers[i].rc]
        /\ wrappers' = [wrappers EXCEPT ![i].pc = "rm_pid"]
        /\ UNCHANGED <<unitvars, planvars, wait_tasks, status_dict, join_pc, polls, task_previous_status, join_log, join_exc, found, launcher, launches, relaunch>>

\* rm ./pid
RmPid ==
    \E i \in 1..Len(wrappers) :
        /\ wrappers[i].pc = "rm_pid"
        /\ remote' = [remote EXCEPT ![wrappers[i].task].pid = None]
        /\ wrappers' = [wrappers EXCEPT ![i].pc = "done"]
        /\ UNCHANGED <<unitvars, planvars, wait_tasks, status_dict, join_pc, polls, task_previous_status, join_log, join_exc, found, launcher, launches, relaunch>>

NextLaunch ==
    \/ IssueLaunch \/ TestStatus \/ RmOld \/ MvStatus \/ WriteScript \/ Guard \/ Spawn \/ WritePid
    \/ ScriptExits \/ WriteStatus \/ RmPid

SpecLaunch == InitLaunch /\ [][NextLaunch]_vars

\* The wrappers of task t whose script is executing.
Executing(t) == {i \in 1..Len(wrappers) : wrappers[i].task = t /\ wrappers[i].pc = "script"}

\* The wrappers of task t that have not run all their steps.
Alive(t) == {i \in 1..Len(wrappers) : wrappers[i].task = t /\ wrappers[i].pc # "done"}

\* C9: whatever the interleaving of serial launches of one task with the
\* steps of the background wrappers, at most one instance of the task's
\* script is executing at any time.
C9_AtMostOneInstance == \A t \in Dirs : Cardinality(Executing(t)) <= 1

\* C10: after one launch of a task on a directory without markers, once the
\* launch command and the wrapper have both finished, the directory holds a
\* status marker and no pid marker, and task_get_status reports SUCCESS or
\* FAIL.
C10_FinishedRunLeavesStatus ==
    \A t \in Dirs :
        (/\ launches[t] = 1
         /\ launcher.task # t
         /\ \E i \in 1..Len(wrappers) : wrappers[i].task = t
         /\ Alive(t) = {})
        => /\ remote[t].status # None
           /\ remote[t].pid = None
           /\ task_get_status(remote).exc = None
           /\ task_get_status(remote).map[t].status \in {"SUCCESS", "FAIL"}

\* C11: a launch of a task whose directory holds the status marker of a
\* completed run, with no wrapper of the task alive, always starts a new run:
\* pid and output are removed and the status is renamed to status.old before
\* the guard is evaluated, the guard finds no pid marker, a new wrapper is
\* started, and once the launch command is over the directory holds the new
\* wrapper's pid and no status marker for as long as the new script executes.
C11_RerunStartsClean ==
    relaunch.task # None =>
        LET t == relaunch.task
            new == relaunch.nwrap + 1
            mine == launcher.task = t
        IN /\ (mine /\ launcher.pc = "rm_old") => remote[t].status = relaunch.status
           /\ (mine /\ launcher.pc = "mv_status") =>
                (remote[t].pid = None /\ remote[t].output = None /\ remote[t].status = relaunch.status)
           /\ (mine /\ launcher.pc \in {"write_script", "guard", "spawn"}) =>
                /\ remote[t].pid = None /\ remote[t].output = None /\ remote[t].status = None
                /\ remote[t].status_old = relaunch.status
                /\ Len(wrappers) = relaunch.nwrap
           /\ (mine /\ launcher.pc = "write_pid") =>
                /\ Len(wrappers) = new /\ wrappers[new].task = t
                /\ wrappers[new].pc = "script" => remote[t].status = None
           /\ launcher.pc = "idle" =>
                /\ Len(wrappers) = new /\ wrappers[new].task = t
                /\ remote[t].status_old = relaunch.status
                /\ wrappers[new].pc = "script" =>
                     (remote[t].pid = ToString(new) /\ remote[t].status = None)

\* A relaunch that found the status marker beside a stale pid marker, is
\* over, and left the new script executing.
C11_Witness ==
    /\ relaunch.task # None
    /\ relaunch.pid # None
    /\ launcher.pc = "idle"
    /\ wrappers[relaunch.nwrap + 1].pc = "script"
    /\ remote[relaunch.task].pid = ToString(relaunch.nwrap + 1)

(***************************************************************************)
(* YoTask.create_from_string, called by itself on a script of a few lines. *)
(***************************************************************************)
Directives == {"DEPENDS_ON", "MAYBE_DEPENDS_ON", "CONFLICTS_WITH", "PREREQ_FOR",
               "INCLUDE_FILE", "MAYBE_INCLUDE_FILE", "SENDFILE"}

\* How a line begins: a directive keyword, a word a keyword is a prefix of,
\* or a shell command.
FirstWords == Directives \cup {"DEPENDS_ONCE", "echo"}

\* What follows: no argument, one (a task of the catalog, or a path that
\* names no task), two, or three.
ArgTails == {"", " a", " ~/f", " a d", " a b c"}

ParseLines == {w \o t : w \in FirstWords, t \in ArgTails} \cup {" " \o w \o " a" : w \in FirstWords}

ParseScripts == SeqsUpTo(ParseLines, MaxScript)

IdleLocal ==
    /\ IdlePlan
    /\ IdlePoll
    /\ IdleLaunch

InitParse ==
    /\ IdleLocal
    /\ IdleHost
    /\ call \in {[fn |-> "create_from_string", name |-> "t", script |-> sc] : sc \in ParseScripts}
    /\ ret = NoRet

\* task = YoTask.create_from_string(name, script)
CreateFromString ==
    /\ call.fn = "create_from_string"
    /\ ret = NoRet
    /\ ret' = create_from_string(call.name, call.script)
    /\ UNCHANGED <<planvars, pollvars, launchvars, hostvars, call>>

NextParse == CreateFromString

SpecParse == InitParse /\ [][NextParse]_vars

Returned == ret.exc.kind # "pending"

Parsed == ret.exc = NoExc

\* The stripped form of line i of the script given, whether it starts with
\* the keyword kw, and what it says after its first word.
Stripped(i) == strip(call.script[i])

Starts(i, kw) == startswith(Stripped(i), kw)

NameOn(i) == split_maxsplit_1(Stripped(i))[2]

ArgCount(i) == Len(shlex_split(Stripped(i))) - 1

\* The values f(i) of the lines i that satisfy P, in order of appearance.
Collect(P(_), f(_)) ==
    LET sel == SelectSeq([i \in 1..Len(call.script) |-> i], P)
    IN [k \in 1..Len(sel) |-> f(sel[k])]

\* C12: create_from_string builds, in order of appearance, dependencies from
\* every DEPENDS_ON name and every MAYBE_DEPENDS_ON name of the catalog,
\* conflicts from every CONFLICTS_WITH name, prereq_for from every PREREQ_FOR
\* name; the script keeps its number of lines, a MAYBE_DEPENDS_ON line of a
\* catalog task becomes a DEPENDS_ON line, one of an unknown task is commented
\* out, and DEPENDS_ON, CONFLICTS_WITH, PREREQ_FOR and non-directive lines
\* are byte-identical.
C12_DirectiveLists ==
    Parsed =>
        LET IsDep(i) == Starts(i, "DEPENDS_ON") \/ (Starts(i, "MAYBE_DEPENDS_ON") /\ NameOn(i) \in Names)
            IsConflict(i) == Starts(i, "CONFLICTS_WITH")
            IsPrereq(i) == Starts(i, "PREREQ_FOR")
        IN /\ ret.task.dependencies = Collect(IsDep, NameOn)
           /\ ret.task.conflicts = Collect(IsConflict, NameOn)
           /\ ret.task.prereq_for = Collect(IsPrereq, NameOn)
           /\ Len(ret.task.script) = Len(call.script)
           /\ \A i \in 1..Len(call.script) :
                /\ (Starts(i, "MAYBE_DEPENDS_ON") /\ NameOn(i) \in Names) =>
                      ret.task.script[i] = "DEPENDS_ON " \o NameOn(i)
                /\ (Starts(i, "MAYBE_DEPENDS_ON") /\ NameOn(i) \notin Names) =>
                      ret.task.script[i] = "# " \o Stripped(i)
                /\ (\/ Starts(i, "DEPENDS_ON") \/ Starts(i, "CONFLICTS_WITH") \/ Starts(i, "PREREQ_FOR")
                    \/ \A kw \in Directives : ~Starts(i, kw)) =>
                      ret.task.script[i] = call.script[i]

\* A script with an optional dependency on an unknown task and, indented, one
\* on a task of the catalog.
C12_Witness ==
    /\ Parsed
    /\ call.script = <<"MAYBE_DEPENDS_ON ~/f", " MAYBE_DEPENDS_ON a">>
    /\ ret.task.dependencies = <<"a">>
    /\ ret.task.script = <<"# MAYBE_DEPENDS_ON ~/f", "DEPENDS_ON a">>

\* The number of arguments the claim allows a directive.
Arity(kw) == IF kw \in {"INCLUDE_FILE", "MAYBE_INCLUDE_FILE"} THEN {1, 2} ELSE {1}

BadArity(i) == \E kw \in Directives : Starts(i, kw) /\ ArgCount(i) \notin Arity(kw)

\* C13: create_from_string fails with a YoExc that identifies the offending
\* line whenever a directive line has an argument count outside its arity
\* (1 or 2 for INCLUDE_FILE and MAYBE_INCLUDE_FILE, 1 for the others), and
\* produces no task then.
C13_ArityErrors ==
    (Returned /\ \E i \in 1..Len(call.script) : BadArity(i)) =>
        /\ ret.exc.kind = "YoExc"
        /\ "task" \notin DOMAIN ret
        /\ \E i \in 1..Len(call.script) : BadArity(i) /\ ret.exc.a = Stripped(i)

\* C13, the part the code keeps: the arity of INCLUDE_FILE, MAYBE_INCLUDE_FILE
\* and SENDFILE lines, in a script whose other directives have one argument.
C13_FileDirectiveArity ==
    (/\ Returned
     /\ \E i \in 1..Len(call.script) : BadArity(i)
     /\ \A i \in 1..Len(call.script), kw \in {"DEPENDS_ON", "MAYBE_DEPENDS_ON", "CONFLICTS_WITH", "PREREQ_FOR"} :
            Starts(i, kw) => ArgCount(i) = 1) =>
        /\ ret.exc.kind = "YoExc"
        /\ "task" \notin DOMAIN ret
        /\ LET first == CHOOSE i \in 1..Len(call.script) : BadArity(i) /\ \A j \in 1..(i - 1) : ~BadArity(j)
           IN ret.exc.a = Stripped(first)

\* C13, where the code leaves it: a name directive without an argument ends
\* in an IndexError, one with several arguments is taken as it stands.
C13_NameDirectiveArity ==
    (/\ Returned /\ Len(call.script) = 1
     /\ \E kw \in {"DEPENDS_ON", "MAYBE_DEPENDS_ON", "CONFLICTS_WITH", "PREREQ_FOR"} : Starts(1, kw)) =>
        /\ ArgCount(1) = 0 => ret.exc.kind = "IndexError"
        /\ ArgCount(1) > 1 => ret.exc = NoExc

\* The path the claim expects of a SENDFILE argument.
TildeExpanded(arg) == IF startswith(arg, "~/") THEN HOME \o SubSeq(arg, 2, Len(arg)) ELSE arg

\* C14: create_from_string records, in order of appearance, each INCLUDE_FILE
\* and MAYBE_INCLUDE_FILE line as (source, destination, optional), the
\* destination being the source when one argument is given and optional true
\* exactly for MAYBE_INCLUDE_FILE, and each SENDFILE line as one tilde-expanded
\* path; each such line is replaced in the script by "# " and the line (as
\* stripped of the blanks around it).
C14_FileDirectives ==
    Parsed =>
        LET IsInclude(i) == Starts(i, "INCLUDE_FILE") \/ Starts(i, "MAYBE_INCLUDE_FILE")
            IsSendfile(i) == Starts(i, "SENDFILE")
            Word(i, k) == shlex_split(Stripped(i))[k]
            Entry(i) == <<Word(i, 2), IF ArgCount(i) = 2 THEN Word(i, 3) ELSE Word(i, 2), Starts(i, "MAYBE_INCLUDE_FILE")>>
            Sent(i) == TildeExpanded(Word(i, 2))
        IN /\ ret.task.include_files = Collect(IsInclude, Entry)
           /\ ret.task.sendfiles = Collect(IsSendfile, Sent)
           /\ \A i \in 1..Len(call.script) :
                (IsInclude(i) \/ IsSendfile(i)) => ret.task.script[i] = "# " \o Stripped(i)

\* A script with an optional inclusion of two arguments and the sending of a
\* file of the home directory.
C14_Witness ==
    /\ Parsed
    /\ call.script = <<"MAYBE_INCLUDE_FILE a d", "SENDFILE ~/f">>
    /\ ret.task.include_files = <<<<"a", "d", TRUE>>>>
    /\ ret.task.sendfiles = <<"/h/f">>

(***************************************************************************)
(* standardize_globs, called by itself on a list of a few entries.         *)
(***************************************************************************)
GlobSources == {"~/s", "/s", "s", "~s"}

GlobDests == {"~/d", "/d", "d", "~//d", "//d", "~"}

GlobLists == SeqsUpTo(GlobSources \X GlobDests \X BOOLEAN, MaxGlobs)

InitGlobs ==
    /\ IdleLocal
    /\ IdleHost
    /\ call \in {[fn |-> "standardize_globs", include_files |-> l] : l \in GlobLists}
    /\ ret = NoRet

\* user, system = standardize_globs(include_files)
StandardizeGlobs ==
    /\ call.fn = "standardize_globs"
    /\ ret = NoRet
    /\ ret' = standardize_globs(call.include_files)
    /\ UNCHANGED <<planvars, pollvars, launchvars, hostvars, call>>

NextGlobs == StandardizeGlobs

SpecGlobs == InitGlobs /\ [][NextGlobs]_vars

\* C15: standardize_globs partitions its entries, keeping their order and the
\* optional flag: a destination that starts with "~/" puts the entry in the
\* user list, one that starts with "/" in the system list, each with the
\* tilde-expanded absolute source and a destination without leading "/"; the
\* call fails with YoExc, returning no lists, if some source is not absolute
\* after tilde expansion or some destination starts with neither.
C15_Partition ==
    Returned =>
        LET L == call.include_files
            Bad(i) == ~startswith(TildeExpanded(L[i][1]), "/")
                      \/ (~startswith(L[i][2], "~/") /\ ~startswith(L[i][2], "/"))
            Part(P(_)) == SelectSeq([i \in 1..Len(L) |-> i], P)
            ToUser(i) == startswith(L[i][2], "~/")
            ToSystem(i) == startswith(L[i][2], "/")
            Standard(out, idx) ==
                /\ Len(out) = Len(idx)
                /\ \A k \in 1..Len(idx) :
                     /\ out[k][1] = TildeExpanded(L[idx[k]][1])
                     /\ startswith(out[k][1], "/")
                     /\ ~startswith(out[k][2], "/")
                     /\ endswith(L[idx[k]][2], out[k][2])
                     /\ out[k][3] = L[idx[k]][3]
        IN IF \E i \in 1..Len(L) : Bad(i)
           THEN ret.exc.kind = "YoExc" /\ DOMAIN ret = {"exc"}
           ELSE /\ ret.exc = NoExc
                /\ Standard(ret.user, Part(ToUser))
                /\ Standard(ret.system, Part(ToSystem))

\* A list standardized into one system entry, whose destination had two
\* leading slashes, and one optional user entry.
C15_Witness ==
    /\ ret.exc = NoExc
    /\ call.include_files = <<<<"~/s", "//d", FALSE>>, <<"/s", "~//d", TRUE>>>>
    /\ ret.user = <<<<"/s", "d", TRUE>>>>
    /\ ret.system = <<<<"/h/s", "d", FALSE>>>>

BuildCall(include_files, tree, max) ==
    [fn |-> "build_tarball", include_files |-> include_files, tarball |-> Tarball,
     n |-> 0, max |-> max, before |-> tree, touched |-> FALSE, unchanged |-> FALSE, prev_runs |-> 0]

\* Two calls in succession: every source exists, dated before or after an
\* archive of time 2 that may be there; the entries all go to d/.
SkipLists == SeqsUpTo({"/s/f", "/s/dir/", "/s/x*", "/s/y*"} \X {"d/"} \X BOOLEAN, MaxInclude) \ {<<>>}

InitSkip ==
    /\ IdleLocal
    /\ local_tree \in UNION {{t, WithArchive(t, 2)} : t \in Trees(Sources, {1, Started})}
    /\ clock = Started
    /\ tar_runs = <<>>
    /\ con_log = <<>>
    /\ call \in {BuildCall(l, local_tree, MaxCalls) : l \in SkipLists}
    /\ ret = NoRet

\* build_tarball(ctx, include_files, root, tarball, task_name)
BuildTarball ==
    /\ call.fn = "build_tarball"
    /\ call.n < call.max
    /\ LET r == build_tarball(local_tree, clock, call.include_files, call.tarball)
       IN /\ local_tree' = r.tree
          /\ tar_runs' = tar_runs \o r.runs
          /\ con_log' = con_log \o r.logs
          /\ ret' = [exc |-> r.exc, runs |-> r.runs, logs |-> r.logs]
    /\ call' = [call EXCEPT !.n = @ + 1, !.before = local_tree, !.touched = FALSE,
                            !.unchanged = (call.n > 0 /\ ~call.touched),
                            !.prev_runs = IF call.n > 0 THEN Len(ret.runs) ELSE 0]
    /\ UNCHANGED <<planvars, pollvars, launchvars, clock>>

\* Between two calls, time passes and a local file or directory is touched.
Touch ==
    /\ call.fn = "build_tarball"
    /\ 0 < call.n /\ call.n < call.max
    /\ clock < MaxTime
    /\ \E p \in DOMAIN local_tree \ {call.tarball} :
         local_tree' = [local_tree EXCEPT ![p].mtime = clock + 1]
    /\ clock' = clock + 1
    /\ call' = [call EXCEPT !.touched = TRUE]
    /\ UNCHANGED <<planvars, pollvars, launchvars, ret, tar_runs, con_log>>

NextSkip == BuildTarball \/ Touch

SpecSkip == InitSkip /\ [][NextSkip]_vars

\* In call: before is the file system the latest call found, unchanged tells
\* that nothing was touched since the call before it, prev_runs is how many
\* subprocesses that call ran.
\* What the latest call found: the pairs it resolved, whether the archive was
\* there, and whether a resolved source, or anything beneath a resolved
\* source directory, was dated later than the archive.
ResolvedBefore == resolve_pairs(call.before, call.include_files, 1, <<>>).pairs

ArchiveBefore == call.tarball \in DOMAIN call.before

NewerBefore ==
    LET R == ResolvedBefore
    IN \E k \in 1..Len(R), q \in DOMAIN call.before :
        /\ q = R[k][1] \/ startswith(q, R[k][1] \o "/")
        /\ call.before[q].mtime > call.before[call.tarball].mtime

ReturnedNormally == call.fn = "build_tarball" /\ call.n > 0 /\ ret.exc = NoExc

\* C16: build_tarball is an incremental build: with the archive there and
\* nothing resolved (nor anything beneath a resolved directory) dated later,
\* a call runs no subprocess and logs nothing; with something later, or no
\* archive, it runs exactly one; and two calls in succession with the sources
\* untouched between them build at most once.
C16_IncrementalBuild ==
    ReturnedNormally =>
        /\ (ArchiveBefore /\ ~NewerBefore) => (ret.runs = <<>> /\ ret.logs = <<>>)
        /\ (~ArchiveBefore \/ NewerBefore) => Len(ret.runs) = 1
        /\ call.unchanged => call.prev_runs + Len(ret.runs) <= 1

\* C16, the part the code keeps: what each call does by itself.
C16_EachCall ==
    ReturnedNormally =>
        /\ (ArchiveBefore /\ ~NewerBefore) => (ret.runs = <<>> /\ ret.logs = <<>>)
        /\ (~ArchiveBefore \/ NewerBefore) => (Len(ret.runs) = 1 /\ Len(ret.logs) = 1)

\* C16, the two calls in succession when the list resolves to something.
C16_TwiceWithMembers ==
    (ReturnedNormally /\ call.unchanged /\ ResolvedBefore # <<>>) => call.prev_runs + Len(ret.runs) <= 1

\* C16, where the code leaves it: a list that resolves to nothing, and no
\* archive, runs tar at every call.
C16_TwiceWithoutMembers ==
    (ReturnedNormally /\ call.unchanged /\ ResolvedBefore = <<>> /\ ~ArchiveBefore)
        => call.prev_runs + Len(ret.runs) = 2

\* One call where no archive is: the sources that exist vary, and so do the
\* forms of the destination.
ArchiveLists == SeqsUpTo({"/s/f", "/s/dir/", "/s/x*"} \X {"d", "d/", ""} \X BOOLEAN, MaxInclude) \ {<<>>}

InitArchive ==
    /\ IdleLocal
    /\ local_tree \in UNION {Trees(S, {1}) : S \in {X \in SUBSET Sources : ("/s/dir/n" \in X) = ("/s/dir" \in X)}}
    /\ clock = Started
    /\ tar_runs = <<>>
    /\ con_log = <<>>
    /\ call \in {BuildCall(l, local_tree, 1) : l \in ArchiveLists}
    /\ ret = NoRet

NextArchive == BuildTarball

SpecArchive == InitArchive /\ [][NextArchive]_vars

\* The paths the claim puts in the archive for the entry e of the list, in
\* the file system the call found.
UnderDest(dest, base) == IF dest = "" THEN base ELSE rstrip(dest, "/") \o "/" \o base

ManifestOf(e) ==
    LET source == rstrip(e[1], "/")
        dest == e[2]
        matches == IF e[1] = "/s/x*" THEN {"/s/x1", "/s/x2"} \cap DOMAIN call.before ELSE {}
    IN IF source \in DOMAIN call.before /\ call.before[source].kind = "file"
       THEN {IF dest = "" \/ endswith(dest, "/") THEN UnderDest(dest, name_of(source)) ELSE dest}
       ELSE IF source \in DOMAIN call.before
       THEN {IF dest = "" THEN "." ELSE rstrip(dest, "/")}
       ELSE {UnderDest(dest, name_of(m)) : m \in matches}

\* C17: when build_tarball builds, the member list of the archive holds
\* exactly one destination-relative path per resolved pair: an existing file
\* goes to its destination, or to destination/basename when the destination
\* is empty or ends with "/"; an existing directory goes to its destination;
\* every match of a pattern goes to destination/basename; an optional pattern
\* without a match adds no path, and a required one makes the call fail with
\* YoExc before anything is logged, staged or built.
C17_ArchiveMembers ==
    (call.fn = "build_tarball" /\ call.n > 0) =>
        LET L == call.include_files
            count == [i \in 1..Len(L) |-> Cardinality(ManifestOf(L[i]))]
        IN /\ ret.runs # <<>> =>
                /\ Range(ret.runs[1]) = UNION {ManifestOf(L[i]) : i \in 1..Len(L)}
                /\ Len(ret.runs[1]) = Sum(count, 1..Len(L))
                /\ \A k \in 1..Len(ret.runs[1]) : ~startswith(ret.runs[1][k], "/")
           /\ (\E i \in 1..Len(L) : ~L[i][3] /\ ManifestOf(L[i]) = {}) =>
                /\ ret.exc.kind = "YoExc"
                /\ ret.runs = <<>> /\ ret.logs = <<>>
                /\ local_tree = call.before

\* A build with the two matches of a pattern under d/ and a file under its
\* own name: two entries, three members.
C17_Witness ==
    /\ call.fn = "build_tarball" /\ call.n = 1
    /\ call.include_files = <<<<"/s/x*", "d/", FALSE>>, <<"/s/f", "", TRUE>>>>
    /\ ret.runs # <<>>
    /\ Range(ret.runs[1]) = {"d/x1", "d/x2", "f"}
    /\ Tarball \in DOMAIN local_tree

(***************************************************************************)
(* The closure of the plan under dependencies.                             *)
(***************************************************************************)
Constructed == pc # "start"

\* The dependencies as the scripts declare them: t -> d when the script of t
\* has the line DEPENDS_ON d.
DeclaredEdges ==
    {e \in Names \X Names : \E i \in 1..Len(catalog[e[1]]) : catalog[e[1]][i] = "DEPENDS_ON " \o e[2]}

\* C19: once TaskPlan(requested) is constructed, every name in the
\* dependencies of a task of name_to_task is a key of name_to_task, and the
\* keys are the requested tasks and tasks reachable from them through the
\* declared dependencies, nothing else; this stays so through prerequisite
\* folding (whether prepare() returns or raises), and the ordering never
\* looks up a name that the plan does not hold.
C19_PlanClosed ==
    Constructed =>
        /\ \A n \in Keys : \A i \in 1..Len(tasks[n].dependencies) : InSeq(tasks[n].dependencies[i], name_to_task)
        /\ \A n \in Range(request) : InSeq(n, name_to_task)
        /\ Keys \subseteq Reach(DeclaredEdges, Range(request))
        /\ exc.kind # "KeyError"

\* A prepared plan holding a task that is neither requested nor a dependency
\* of a requested task: it came in through a task the constructor loaded.
C19_Witness ==
    /\ pc = "prepared"
    /\ \E n \in Keys :
        /\ n \notin Range(request)
        /\ \A r \in Range(request) : <<r, n>> \notin DeclaredEdges

(***************************************************************************)
(* The plan with file directives: prepare() packages the include_files of  *)
(* every task into archives and verifies the sendfiles.                    *)
(***************************************************************************)
MaxFileLines == 2

FileTasks == {"a", "b"}

\* A file to send, a file to include under its own path, files to include
\* under the home directory, an optional pattern nothing matches, a pattern
\* to include under /d, and a source that is not rooted.
FileDirectives ==
    {"SENDFILE /s/f", "SENDFILE /s/x1", "INCLUDE_FILE /s/f", "INCLUDE_FILE /s/f ~/d/",
     "INCLUDE_FILE /s/x1 ~/d/", "MAYBE_INCLUDE_FILE /s/y* ~/d/", "INCLUDE_FILE /s/x* /d/",
     "INCLUDE_FILE s/f"}

FileCatalogs ==
    {CatalogOf(lines) :
        lines \in SeqsUpTo({<<n, d>> : n \in FileTasks, d \in FileDirectives} \cup {<<"a", "DEPENDS_ON b">>},
                           MaxFileLines)}

\* The file system a previous prepare() of task a left: its staging
\* directory with a user archive, dated after the sources.
WithStaged(tree) ==
    LET dir == staging_dir("a")
        tarball == dir \o "/user.tar.gz"
    IN [p \in DOMAIN tree \cup {dir, tarball} |->
            IF p = dir THEN [kind |-> "dir", mtime |-> 2]
            ELSE IF p = tarball THEN [kind |-> "file", mtime |-> 2]
            ELSE tree[p]]

FileTrees ==
    LET plain == UNION {Trees(S, {1}) : S \in SUBSET {"/s/f", "/s/x1"}}
    IN plain \cup {WithStaged(tree) : tree \in plain}

InitFiles ==
    /\ catalog \in FileCatalogs
    /\ tasks = [n \in Names |-> load(catalog, n)]
    /\ local_tree \in FileTrees
    /\ request \in Arrangements(FileTasks)
    /\ name_to_task = <<>>
    /\ ordered_tasks = <<>>
    /\ pc = "start"
    /\ exc = NoExc
    /\ run_i = 0
    /\ ssh_log = <<>>
    /\ IdlePoll
    /\ IdleLaunch
    /\ call = NoCall
    /\ ret = NoRet
    /\ clock = Started
    /\ tar_runs = <<>>
    /\ con_log = <<>>

SpecFiles == InitFiles /\ [][NextPlan]_vars

\* prepare() was called; it returned normally.
PrepareCalled == pc \in {"failed", "prepared", "done"}

PrepareReturned == pc \in {"prepared", "done"}

\* The partitions of the include_files a task declares, by destination.
DeclaredUser(n) == SelectSeq(load(catalog, n).include_files, LAMBDA e : startswith(e[2], "~/"))

DeclaredSystem(n) == SelectSeq(load(catalog, n).include_files, LAMBDA e : startswith(e[2], "/"))

\* The archives of a task: one per partition that is not empty.
Archives(n) ==
    (IF DeclaredUser(n) # <<>> THEN <<staging_dir(n) \o "/user.tar.gz">> ELSE <<>>)
    \o (IF DeclaredSystem(n) # <<>> THEN <<staging_dir(n) \o "/system.tar.gz">> ELSE <<>>)

\* The sendfiles of a task that are no file.
MissingOf(n) == SelectSeq(tasks[n].sendfiles, LAMBDA f : ~is_file(local_tree, f))

Packaged(n) ==
    /\ tasks[n].include_files = <<>>
    /\ tasks[n].sendfiles = load(catalog, n).sendfiles \o Archives(n)
    /\ MissingOf(n) = <<>>

RunTasks ==
    {[load([n \in Names |-> <<>>], name) EXCEPT !.sendfiles = files] :
        name \in Names, files \in SeqsUpTo({"/s/f", staging_dir("a") \o "/user.tar.gz"}, 2)}

InitRun ==
    /\ IdleLocal
    /\ IdleHost
    /\ call \in {[fn |-> "_task_run", task |-> task, n |-> 0] : task \in RunTasks}
    /\ ret = NoRet

\* _task_run(ctx, inst, task)
TaskRun ==
    /\ call.fn = "_task_run"
    /\ call.n < MaxCalls
    /\ \E mkdir_out \in Outcomes, scp_out \in Outcomes, launch_out \in Outcomes :
        ret' = task_run_commands(call.task, mkdir_out, scp_out, launch_out)
    /\ call' = [call EXCEPT !.n = @ + 1]
    /\ UNCHANGED <<planvars, pollvars, launchvars, hostvars>>

NextRun == TaskRun

SpecRun == InitRun /\ [][NextRun]_vars

\* C20: for a task with sendfiles _task_run issues exactly three commands:
\* the creation of the remote staging directory, then one copy of all the
\* sendfiles into the directory that command echoed, then the launch; for a
\* task without sendfiles it issues the launch alone.  Whatever the staging
\* and the copy come to, nothing is raised and the launch is issued.
C20_RunCommands ==
    (call.fn = "_task_run" /\ call.n > 0) =>
        LET task == call.task
            cmds == ret.cmds
            kinds == [k \in 1..Len(cmds) |-> cmds[k].cmd]
        IN /\ ret.exc = NoExc
           /\ task.sendfiles # <<>> =>
                /\ kinds = <<"ssh_mkdir", "scp", "ssh_launch">>
                /\ cmds[2].files = task.sendfiles
                /\ cmds[1].out = "ok" => cmds[2].dest = "$task_dir/" \o task.name \o "/files/"
           /\ task.sendfiles = <<>> => kinds = <<"ssh_launch">>
           /\ \A k \in 1..Len(cmds) : cmds[k].task = task.name
           /\ cmds[Len(cmds)].cmd = "ssh_launch"

\* A run whose staging and copy both failed and whose launch was issued.
C20_Witness ==
    /\ call.fn = "_task_run" /\ call.n > 0
    /\ Len(call.task.sendfiles) = 2
    /\ Len(ret.cmds) = 3
    /\ ret.cmds[1].out = "failed" /\ ret.cmds[2].out = "failed"
    /\ ret.cmds[3].cmd = "ssh_launch"

(***************************************************************************)
(* The plan with definition errors in its include directives.              *)
(***************************************************************************)
MaxDefLines == 2

\* A well-formed include, a source that is not rooted, a destination that is
\* neither under the home directory nor rooted, a pattern without and with
\* a destination directory, and a prerequisite.
DefDirectives ==
    {"INCLUDE_FILE /s/f ~/d/", "INCLUDE_FILE s/f", "INCLUDE_FILE /s/f d/",
     "INCLUDE_FILE /s/x*", "INCLUDE_FILE /s/x* ~/d/", "PREREQ_FOR a", "PREREQ_FOR b"}

DefCatalogs ==
    {CatalogOf(lines) :
        lines \in SeqsUpTo({<<n, d>> : n \in FileTasks, d \in DefDirectives}, MaxDefLines)}

InitDefs ==
    /\ catalog \in DefCatalogs
    /\ tasks = [n \in Names |-> load(catalog, n)]
    /\ local_tree \in UNION {Trees(S, {1}) : S \in SUBSET {"/s/f", "/s/x1"}}
    /\ request \in Arrangements(FileTasks)
    /\ name_to_task = <<>>
    /\ ordered_tasks = <<>>
    /\ pc = "start"
    /\ exc = NoExc
    /\ run_i = 0
    /\ ssh_log = <<>>
    /\ IdlePoll
    /\ IdleLaunch
    /\ call = NoCall
    /\ ret = NoRet
    /\ clock = Started
    /\ tar_runs = <<>>
    /\ con_log = <<>>

SpecDefs == InitDefs /\ [][NextPlan]_vars

\* prepare() raised the YoExc of standardize_globs: a source that is not
\* absolute after expansion, or a destination without "~/" or "/" in front.
DefinitionError ==
    /\ pc = "failed"
    /\ exc.kind = "YoExc"
    /\ exc.b = None
    /\ \E n \in Range(ordered_tasks) : \E i \in 1..Len(tasks[n].include_files) :
        LET e == tasks[n].include_files[i]
        IN \/ exc.a = expanduser(e[1]) /\ ~startswith(exc.a, "/")
           \/ exc.a = e[2] /\ ~startswith(e[2], "~/") /\ ~startswith(e[2], "/")

\* C21: when prepare() raises a definition error, nothing remote has been
\* done, no task has had its dependencies, script, include_files or
\* sendfiles modified by the call, and no archive has been built.
C21_NoPartialState ==
    DefinitionError =>
        /\ ssh_log = <<>>
        /\ \A n \in Names : tasks[n] = load(catalog, n)
        /\ tar_runs = <<>>
        /\ \A p \in DOMAIN local_tree : ~endswith(p, ".tar.gz")

\* What does hold at a definition error: nothing remote has been done.
C21_NothingRemote == DefinitionError => (ssh_log = <<>> /\ run_i = 0)

\* An include entry a task declares whose pattern is not a file or a
\* directory and is, verbatim, its own destination.
GlobWithoutDirectory(n) ==
    \E i \in 1..Len(load(catalog, n).include_files) :
        LET e == load(catalog, n).include_files[i]
        IN /\ e[1] = e[2]
           /\ find(e[1], "*", 1) > 0

\* C22: preparing a plan that holds a task with an include entry whose
\* pattern is its own destination fails, and with the YoExc "glob results
\* need to have a destination directory" when the packaging gets to that
\* entry (the pattern has a match and nothing before it raised); the matches
\* are not packaged.
C22_GlobNeedsDirectory ==
    (PrepareCalled /\ exc.kind \notin {"conflict", "circular"}
        /\ \E n \in Range(ordered_tasks) : GlobWithoutDirectory(n)) =>
            /\ pc = "failed"
            /\ (\A n \in Range(ordered_tasks) : Len(load(catalog, n).include_files) = 1 /\ GlobWithoutDirectory(n))
                /\ "/s/x1" \in DOMAIN local_tree
                    => exc.kind = "YoExc" /\ exc.a = "destination"
            /\ \A k \in 1..Len(tar_runs) : \A j \in 1..Len(tar_runs[k]) : find(tar_runs[k][j], "*", 1) = 0

(***************************************************************************)
(* The script create_from_string leaves.                                   *)
(***************************************************************************)
\* C23: in the script of the task create_from_string returns, every line
\* whose stripped form starts with a directive keyword has become "# "
\* followed by that stripped line, and no line of the script starts with a
\* directive keyword any more.
C23_DirectivesCommented ==
    Parsed =>
        \A i \in 1..Len(call.script) :
            (\E kw \in Directives : Starts(i, kw)) =>
                /\ ret.task.script[i] = "# " \o Stripped(i)
                /\ \A kw \in Directives : ~startswith(strip(ret.task.script[i]), kw)

(***************************************************************************)
(* The transition lines of task_join.                                      *)
(***************************************************************************)
\* A poll of the join that got a mapping: the step from "poll" on which
\* task_get_status raised nothing.
PollStep == join_pc = "poll" /\ join_pc' # "poll" /\ join_exc' # "ValueError"

\* The lines the poll of this step logged for task t.
LinesOf(t) == {i \in 1..Len(join_log') : join_log'[i].task = t}

MaxFoldLines == 2

FoldCatalogs ==
    {CatalogOf(lines) :
        lines \in SeqsUpTo({<<n, kw \o " " \o d>> : n \in Names, kw \in {"DEPENDS_ON", "PREREQ_FOR"}, d \in Names},
                           MaxFoldLines)}

InitProcess ==
    /\ catalog \in FoldCatalogs
    /\ tasks = [n \in Names |-> load(catalog, n)]
    /\ local_tree = <<>>
    /\ request \in Arrangements(Names)
    /\ name_to_task = <<>>
    /\ ordered_tasks = <<>>
    /\ pc = "start"
    /\ exc = NoExc
    /\ run_i = 0
    /\ ssh_log = <<>>
    /\ IdlePoll
    /\ IdleLaunch
    /\ call = NoCall
    /\ ret = NoRet
    /\ clock = Started
    /\ tar_runs = <<>>
    /\ con_log = <<>>

\* plan.prepare(ctx), a second time on the plan it has prepared
PrepareAgain ==
    /\ pc = "prepared"
    /\ call = NoCall
    /\ prepare_leaves(prepare(tasks, name_to_task, ordered_tasks, local_tree, clock))
    /\ call' = [fn |-> "prepare", n |-> 2, first |-> name_to_task]
    /\ UNCHANGED <<catalog, request, name_to_task, run_i, ssh_log, pollvars, launchvars, ret, clock>>

\* YoTask.load under lru_cache with every task read again from its file
load_again(T, cat) == [n \in Names |-> load(cat, n)]

\* YoTask.load under lru_cache: a name loaded before gives the object loaded
\* then, as it is now.
load_cached(T, cat) == T

\* TaskPlan([B]), later in the process that prepared the first plan
NewPlan ==
    /\ pc = "prepared"
    /\ call = NoCall
    /\ \E B \in Names :
        /\ request' = <<B>>
        /\ name_to_task' = TaskPlan_init(load_cached(tasks, catalog), <<B>>)
    /\ tasks' = load_cached(tasks, catalog)
    /\ ordered_tasks' = <<>>
    /\ pc' = "constructed"
    /\ call' = [fn |-> "TaskPlan", n |-> 2, first |-> name_to_task]
    /\ UNCHANGED <<exc, run_i, ssh_log, catalog, pollvars, launchvars, ret, hostvars>>

NextProcess == Construct \/ Prepare \/ PrepareAgain \/ NewPlan

SpecProcess == InitProcess /\ [][NextProcess]_vars

\* How often x stands in the sequence s.
Count(x, s) == Cardinality({i \in 1..Len(s) : s[i] = x})

\* How often the script of A declares PREREQ_FOR B.
Declares(A, B) == Count("PREREQ_FOR " \o B, catalog[A])

\* C25: a second prepare() on a prepared plan inserts every prerequisite
\* again: for A and B in the plan with A declaring PREREQ_FOR B, the name of
\* A stands in B.dependencies twice per declaration (beside what B declares
\* itself) and B.script starts with two 'DEPENDS_ON A' lines per declaration,
\* the script B was loaded with following them.
C25_PrepareTwice ==
    (call.fn = "prepare" /\ pc = "prepared") =>
        \A B \in Keys :
            LET added == Len(tasks[B].script) - Len(catalog[B])
            IN /\ \A A \in Keys :
                    /\ Count(A, tasks[B].dependencies)
                         = Count("DEPENDS_ON " \o A, catalog[B]) + 2 * Declares(A, B)
                    /\ Count("DEPENDS_ON " \o A, SubSeq(tasks[B].script, 1, added)) = 2 * Declares(A, B)
               /\ SubSeq(tasks[B].script, added + 1, Len(tasks[B].script)) = catalog[B]
               /\ added = 2 * Sum([A \in Keys |-> Declares(A, B)], Keys)

\* A plan prepared twice in which A is a prerequisite for another task B.
C25_Witness ==
    /\ call.fn = "prepare" /\ pc = "prepared"
    /\ \E A \in Keys, B \in Keys :
        /\ A # B
        /\ Declares(A, B) = 1
        /\ Count(A, tasks[B].dependencies) = 2
        /\ SubSeq(tasks[B].script, 1, 2) = <<"DEPENDS_ON " \o A, "DEPENDS_ON " \o A>>

\* C26: the tasks are shared by the plans of a process: when a first plan
\* holding A and B, A declaring PREREQ_FOR B, has been prepared, a plan made
\* later from the request [B] alone holds A too, and once prepared orders A
\* before B.
C26_FoldedEdgePersists ==
    call.fn = "TaskPlan" =>
        \A A \in Range(call.first), B \in Range(call.first) :
            (request = <<B>> /\ A # B /\ Declares(A, B) > 0) =>
                /\ InSeq(A, name_to_task)
                /\ InSeq(A, tasks[B].dependencies)
                /\ pc # "failed"
                /\ pc = "prepared" => (0 < Pos(A) /\ Pos(A) < Pos(B))

\* A second plan, made from [b] alone and prepared, that holds a task b
\* never declared a dependency on.
C26_Witness ==
    /\ call.fn = "TaskPlan" /\ request = <<"b">> /\ pc = "prepared"
    /\ catalog["b"] = <<>>
    /\ Declares("a", "b") = 1
    /\ ordered_tasks = <<"a", "b">>

(***************************************************************************)
(* One launch of each task on task directories without markers, and then   *)
(* a task_join that runs beside the detached wrappers.  The poll is the    *)
(* pipeline find ... -print0 | xargs -0 grep -H ".*" | sort: find prints   *)
(* the marker files that exist when it reads the directories, grep reads   *)
(* later those of them that still exist, and a wrapper may take its steps  *)
(* in between.  The only marker that disappears here is pid, and each      *)
(* wrapper removes its own, so one step for find and one for grep give     *)
(* every output that reading the files one at a time can give.             *)
(***************************************************************************)
\* the launch command of a task that was not launched before
LaunchOnce ==
    /\ IssueLaunch
    /\ \A t \in Dirs : launches'[t] <= 1

\* find {task_dir} \( -name pid -or -name status -or -name wait \) -print0
PollFind ==
    /\ join_pc = "poll"
    /\ found' = {m \in Dirs \X {"pid", "status", "wait"} : remote[m[1]][m[2]] # None}
    /\ join_pc' = "grep"
    /\ UNCHANGED <<unitvars, planvars, launchvars, remote, wait_tasks, status_dict, polls,
                   task_previous_status, join_log, join_exc>>

\* What grep prints of the files find named: a file removed since then
\* gives a message on stderr and no line of output.
grep(R, F) ==
    [t \in DOMAIN R |->
        [NoDir EXCEPT !.pid = IF <<t, "pid">> \in F THEN R[t].pid ELSE None,
                      !.status = IF <<t, "status">> \in F THEN R[t].status ELSE None,
                      !.wait = IF <<t, "wait">> \in F THEN R[t].wait ELSE None]]

\* xargs -0 grep -H ".*" | sort, and the rest of the turn of the loop, up to
\* the sleep
PollGrep ==
    /\ join_pc = "grep"
    /\ LET r == task_get_status(grep(remote, found))
           tr == log_transitions(r.map, SelectSeq(DirOrder, LAMBDA t : t \in DOMAIN r.map),
                                 task_previous_status, <<>>)
           ct == can_terminate(r.map, wait_tasks)
       IN IF r.exc # None
          THEN /\ join_exc' = r.exc
               /\ join_pc' = "raised"
               /\ UNCHANGED <<status_dict, task_previous_status, join_log>>
          ELSE /\ status_dict' = r.map
               /\ task_previous_status' = tr.prev
               /\ join_log' = tr.log
               /\ join_exc' = IF ct = "KeyError" THEN "KeyError" ELSE None
               /\ join_pc' = CASE ct = "KeyError" -> "raised"
                               [] ct = "True" -> "returned"
                               [] OTHER -> "sleep"
    /\ polls' = IF polls < MaxPolls THEN polls + 1 ELSE polls
    /\ found' = {}
    /\ UNCHANGED <<unitvars, planvars, launchvars, remote, wait_tasks>>

\* time.sleep(1) is over
Wake ==
    /\ join_pc = "sleep"
    /\ join_pc' = "poll"
    /\ UNCHANGED <<unitvars, planvars, launchvars, remote, wait_tasks, status_dict, polls,
                   task_previous_status, join_log, join_exc, found>>

NextOnce ==
    \/ LaunchOnce \/ TestStatus \/ WriteScript \/ Guard \/ Spawn \/ WritePid
    \/ ScriptExits \/ WriteStatus \/ RmPid
    \/ JoinStart \/ PollFind \/ PollGrep \/ Wake

SpecOnce == InitLaunch /\ [][NextOnce]_vars

\* The tasks that were launched.
Launched == {t \in Dirs : launches[t] = 1}

\* The tasks a join waits for: those named, or every launched one.
Watched == IF wait_tasks = <<>> THEN Launched ELSE Range(wait_tasks)

\* C27: with every task launched at most once on a directory without
\* markers, and the join started after the launch commands have returned,
\* whenever task_join returns the script of every watched task (every
\* launched task when the wait set is empty) has finished executing and its
\* wrapper has written the status marker: the join never returns while a
\* watched script is running.
C27_ReturnsAfterScripts ==
    join_pc = "returned" =>
        \A t \in Watched :
            /\ Executing(t) = {}
            /\ \E i \in 1..Len(wrappers) : wrappers[i].task = t /\ wrappers[i].pc \in {"rm_pid", "done"}
            /\ remote[t].status # None

\* A join on every launched task that saw a RUNNING, slept, and returned at a
\* later poll, both tasks having been launched.
C27_Witness ==
    /\ join_pc = "returned"
    /\ wait_tasks = <<>>
    /\ Launched = Dirs
    /\ \E i \in 1..Len(join_log) : join_log[i].what = "changing" /\ join_log[i].from.status = "RUNNING"

(***************************************************************************)
(* The same, with the progress the host gives: a script that runs comes to *)
(* its end, a wrapper goes on to its next command, the poll's pipeline     *)
(* runs to its end, and the sleep is over after a second.                  *)
(***************************************************************************)
SpecOnceFair ==
    /\ SpecOnce
    /\ WF_vars(ScriptExits) /\ WF_vars(WriteStatus) /\ WF_vars(RmPid)
    /\ WF_vars(PollFind) /\ WF_vars(PollGrep) /\ WF_vars(Wake)

\* A join is under way whose wait set is empty or names launched tasks only.
JoinOfLaunched == join_pc \notin {"idle", "returned"} /\ Range(wait_tasks) \subseteq Launched

\* C30: with every task launched at most once on a directory without
\* markers, no wait marker, every script exiting and every wrapper running
\* its remaining steps, a task_join started after the launches, with an
\* empty wait set or a wait set of launched tasks, eventually returns.
C30_JoinReturns == JoinOfLaunched ~> (join_pc = "returned")

\* C30, the part the code keeps: such a join with an empty wait set
\* eventually returns.
C30_JoinOfAllReturns == (JoinOfLaunched /\ wait_tasks = <<>>) ~> (join_pc = "returned")

(***************************************************************************)
(* A join that names a task the poll does not report.                      *)
(***************************************************************************)
\* The places of the wait set whose task the polled mapping lacks.
AbsentAt == {i \in 1..Len(wait_tasks) : wait_tasks[i] \notin DOMAIN status_dict}

\* The first of them.
FirstAbsent == CHOOSE i \in AbsentAt : \A j \in AbsentAt : i <= j

\* A poll has just been made and gave a mapping.
Polled == join_pc \in {"returned", "sleep", "raised"} /\ join_exc # "ValueError"

\* C28: task_join with a non-empty wait set never returns normally at a poll
\* whose mapping lacks a named task: when every named task listed before the
\* absent one is neither RUNNING nor WAITING the join fails with the KeyError
\* of the lookup, otherwise it keeps polling.
C28_AbsentNamedTask ==
    (Polled /\ AbsentAt # {}) =>
        IF \A i \in 1..(FirstAbsent - 1) : status_dict[wait_tasks[i]].status \notin Active
        THEN join_pc = "raised" /\ join_exc = "KeyError"
        ELSE join_pc = "sleep"

\* The join named a then b, kept polling while a was RUNNING, and failed on
\* b at a later poll, when a was over and b still had no marker.
C28_Witness ==
    /\ join_pc = "raised" /\ join_exc = "KeyError"
    /\ wait_tasks = <<"a", "b">>
    /\ "b" \notin DOMAIN status_dict
    /\ "a" \in DOMAIN status_dict /\ status_dict["a"].status \notin Active
    /\ \E i \in 1..Len(join_log) : join_log[i].task = "a" /\ join_log[i].from.status = "RUNNING"

(***************************************************************************)
(* Launches, with a record of the task directory each one was issued on.   *)
(***************************************************************************)
\* _task_run(ctx, inst, task): the client issues the launch command of task
\* t; mkdir -p "$TASK_DIR"; cd "$TASK_DIR"
Attempt ==
    /\ launcher.pc = "idle"
    /\ join_pc = "idle"
    /\ Sum(launches, Dirs) < MaxLaunches
    /\ \E t \in Dirs :
         /\ launcher' = [pc |-> "test_status", task |-> t]
         /\ launches' = [launches EXCEPT ![t] = @ + 1]
         /\ call' = [fn |-> "_task_run", task |-> t, dir |-> remote[t], nwrap |-> Len(wrappers)]
    /\ UNCHANGED <<ret, hostvars, planvars, pollvars, wrappers, relaunch>>

NextAttempt ==
    \/ Attempt \/ TestStatus \/ RmOld \/ MvStatus \/ WriteScript \/ Guard \/ Spawn \/ WritePid
    \/ ScriptExits \/ WriteStatus \/ RmPid

SpecAttempt == InitLaunch /\ [][NextAttempt]_vars

\* The latest launch was issued on a directory with a pid marker and no
\* status marker.
OnHeldDirectory == call.fn = "_task_run" /\ call.dir.pid # None /\ call.dir.status = None

\* What C29 says of such a launch: it runs none of the commands that remove
\* or rename a marker or start a process, no wrapper is added, and when it
\* is over the script file holds the text it wrote.
Blocked ==
    LET t == call.task
    IN /\ launcher.task = t => launcher.pc \in {"test_status", "write_script", "guard"}
       /\ Len(wrappers) = call.nwrap
       /\ remote[t].status_old = call.dir.status_old
       /\ remote[t].output = call.dir.output
       /\ launcher.pc = "idle" => remote[t].script = ToString(launches[t])

\* C29: a launch attempt on a task whose directory holds a pid marker and no
\* status marker starts no new process and leaves the pid, status,
\* status.old and output files as they are, but has overwritten the script
\* file before the guard aborts it.
C29_BlockedLaunch == OnHeldDirectory => Blocked

====
